---- MODULE Spec2Model ----
(***************************************************************************)
(* Model of the data backing plane of spritecollab-srv:                    *)
(*   - SpriteCollab::refresh and the helpers it calls (sprite_collab.rs),  *)
(*   - the read-through cache ScCache::cached_may_fail (sprite_collab.rs), *)
(*   - the readers: the asset route handler (assets/mod.rs) and the        *)
(*     GraphQL resolvers (schema.rs),                                      *)
(*   - the DataRefreshScheduler thread and its shutdown (scheduler.rs).    *)
(* Every action is one stretch of code between two suspension points       *)
(* (.await, lock acquisition, thread scheduling).                          *)
(***************************************************************************)
EXTENDS Integers, Sequences, FiniteSets, TLC

\* ------------------------------------------------------------------ bounds
MaxCommits == 2      \* commits in the upstream history (ids 1..MaxCommits)
MaxVersion == 2      \* distinct contents a data file can have
MaxClock   == 2      \* readings of Utc::now() (a logical clock)

\* --------------------------------------------------------------- constants
Commits  == 1..MaxCommits
NoTree   == 0                       \* repository directory absent / no .git
Trees    == Commits \cup {NoTree}
Versions == 1..MaxVersion

\* SpriteCollabData: the three parsed data files.  The derived equality treats
\* the three fields alike, so commits differ in tracker.json only.
Contents == [sprite_config : {1}, tracker : Versions, credit_names : {1}]
\* a tree whose data files fail to parse or validate (version 0 = malformed)
Unparseable == [sprite_config |-> 0, tracker |-> 0, credit_names |-> 0]
\* Option::None where an Option<SpriteCollabData> is held
NoData == [sprite_config |-> -1, tracker |-> -1, credit_names |-> -1]

Callers == {"sched", "ext"}         \* the scheduler thread, another caller
Free    == "unlocked"               \* nobody holds the state mutex
Reqs    == {"r1", "r2"}             \* concurrently served asset requests
Gqls    == {"g1"}                   \* concurrently served GraphQL requests
Keys    == {"k1"}                   \* cache keys (kind|monster/form)
Nil     == << >>                    \* redis GET of an absent key

VARIABLES
    \* upstream repository and the local working tree
    upstream,      \* head commit of origin/master
    content,       \* content[c]: data files of commit c (or Unparseable)
    workTree,      \* commit checked out in the working tree (NoTree if gone)
    clock,         \* Utc::now()
    \* fields of SpriteCollab
    state,         \* Mutex<State> contents
    stateLock,     \* holder of the state mutex
    meta,          \* Mutex<RefCell<Meta>> contents
    current_data,  \* RwLock<SpriteCollabData> contents
    dataCommit,    \* history: commit current_data was parsed from
    redis,         \* the KV store
    lastEvent,     \* last ReportingEvent sent
    \* refresh() callers
    pc,            \* position of each caller inside refresh()
    new_data,      \* Option<SpriteCollabData> returned by refresh_data
    newCommit,     \* history: commit new_data was parsed from
    error,         \* kind of Err returned by refresh_data_internal
    calledBusy,    \* history: another refresh was in progress at call time
    \* requests
    rpc,           \* position of each request
    key,           \* cache key of the request
    snap,          \* what the request read through data()
    outcome,       \* what the producer returned
    val,           \* value computed by the producer
    ret,           \* what cached_may_fail returned
    \* GraphQL requests
    gpc,           \* position of each GraphQL request
    seen1,         \* what its first data() call read
    seen2,         \* what its second data() call read
    \* scheduler
    sched,         \* scheduler thread position
    channel,       \* messages in the shutdown channel
    shutdownPc,    \* position of the caller of shutdown()
    \* calls of the pure functions (form resolution, urls, credits, search)
    callee,        \* the function that is called
    input,         \* its arguments
    output         \* its return value once it returned

repoVars    == <<upstream, content, workTree, clock>>
sharedVars  == <<state, stateLock, meta, current_data, dataCommit, redis, lastEvent>>
refreshVars == <<pc, new_data, newCommit, error, calledBusy>>
reqVars     == <<rpc, key, snap, outcome, val, ret>>
gqlVars     == <<gpc, seen1, seen2>>
schedVars   == <<sched, channel, shutdownPc>>
callVars    == <<callee, input, output>>
serverVars  == <<repoVars, sharedVars, refreshVars, reqVars, gqlVars, schedVars>>
vars == <<serverVars, callVars>>

\* ------------------------------------------------------------ pure helpers

\* Meta { assets_commit, assets_update_date, update_checked_date }
\* the commit time of commit c is modelled as c itself
CommitTime(c) == c

MetaOf(c, now) ==
    [assets_commit |-> c, assets_update_date |-> CommitTime(c),
     update_checked_date |-> now]

\* variant: the Err arm starts over from Meta::new()
MetaOnError_Reset(m, now) == MetaOf(0, now)

\* refresh_data_internal, Err arm: "Update at least the scan time"
MetaOnError(m, now) == [m EXCEPT !.update_checked_date = now]

\* #[derive(Eq, PartialEq)] on SpriteCollabData
DataEq(a, b) ==
    /\ a.sprite_config = b.sprite_config
    /\ a.tracker = b.tracker
    /\ a.credit_names = b.credit_names

\* serde_json::to_string / serde_json::from_str
Serialize(v) == <<"json", v>>
Deserialize(s) == s[2]

\* a producer's value, identified by the snapshot it was derived from (the
\* group found in the tracker the request holds)
Value(s) == [commit |-> s.commit]

NoSnap == [data |-> NoData, commit |-> 0]
NoValue == [commit |-> 0]
NoRet  == [kind |-> "none", value |-> NoValue]

EmptyStore == [k \in Keys |-> Nil]

\* ------------------------------------------------------------------- Init
\* State after SpriteCollab::new and DataRefreshScheduler::new: the first
\* commit parsed, it is published, redis was flushed, the thread sleeps.
InitContent == [sprite_config |-> 1, tracker |-> 1, credit_names |-> 1]

\* the server after SpriteCollab::new and DataRefreshScheduler::run
InitServer ==
    /\ upstream = 1
    /\ content = [c \in Commits |-> IF c = 1 THEN InitContent ELSE Unparseable]
    /\ workTree = 1
    /\ clock = 0
    /\ state = "Ready"
    /\ stateLock = Free
    /\ meta = MetaOf(1, 0)
    /\ current_data = InitContent
    /\ dataCommit = 1
    /\ redis = EmptyStore
    /\ lastEvent = "UpdateOk"
    /\ pc = [c \in Callers |-> "idle"]
    /\ new_data = [c \in Callers |-> NoData]
    /\ newCommit = [c \in Callers |-> 0]
    /\ error = [c \in Callers |-> "none"]
    /\ calledBusy = [c \in Callers |-> FALSE]
    /\ rpc = [r \in Reqs |-> "idle"]
    /\ key = [r \in Reqs |-> "k1"]
    /\ snap = [r \in Reqs |-> NoSnap]
    /\ outcome = [r \in Reqs |-> "none"]
    /\ val = [r \in Reqs |-> NoValue]
    /\ ret = [r \in Reqs |-> NoRet]
    /\ gpc = [g \in Gqls |-> "idle"]
    /\ seen1 = [g \in Gqls |-> NoSnap]
    /\ seen2 = [g \in Gqls |-> NoSnap]
    /\ sched = "wait"
    /\ channel = 0
    /\ shutdownPc = "running"

\* no pure function is being called
NoCall ==
    /\ callee = "none"
    /\ input = Nil
    /\ output = Nil

Init == InitServer /\ NoCall

\* ------------------------------------------------------------ environment

\* A contributor pushes a commit to origin/master.
Push(d) ==
    /\ upstream < MaxCommits
    /\ upstream' = upstream + 1
    /\ content' = [content EXCEPT ![upstream + 1] = d]
    /\ UNCHANGED <<workTree, clock>>
    /\ UNCHANGED <<sharedVars, refreshVars, reqVars, gqlVars, schedVars>>
    /\ UNCHANGED callVars

\* Time passes.
Tick ==
    /\ clock < MaxClock
    /\ clock' = clock + 1
    /\ UNCHANGED <<upstream, content, workTree>>
    /\ UNCHANGED <<sharedVars, refreshVars, reqVars, gqlVars, schedVars>>
    /\ UNCHANGED callVars

\* ---------------------------------------------------- SpriteCollab::refresh

\* refresh() was called: the caller now waits in timeout(360 s, state.lock())
Call(c) ==
    /\ pc[c] = "idle"
    /\ pc' = [pc EXCEPT ![c] = "lock"]
    /\ calledBusy' = [calledBusy EXCEPT ![c] = (stateLock # Free)]
    /\ UNCHANGED <<new_data, newCommit, error>>
    /\ UNCHANGED <<repoVars, sharedVars, reqVars, gqlVars>>
    /\ UNCHANGED callVars

\* the scheduler loop continues with its next recv_timeout when refresh returns
Returned(c) == sched' = IF c = "sched" THEN "wait" ELSE sched

\* a caller other than the scheduler thread calls the public refresh()
ExtCall ==
    /\ Call("ext")
    /\ UNCHANGED schedVars

\* state.lock() resolves; `if state == Refreshing { return }`
RefreshLock(c) ==
    /\ pc[c] = "lock"
    /\ stateLock = Free
    /\ stateLock' = c
    /\ pc' = [pc EXCEPT ![c] = IF state = "Refreshing" THEN "unlock" ELSE "update"]
    /\ UNCHANGED <<state, meta, current_data, dataCommit, redis, lastEvent>>
    /\ UNCHANGED <<new_data, newCommit, error, calledBusy>>
    /\ UNCHANGED <<repoVars, reqVars, gqlVars, schedVars>>
    /\ UNCHANGED callVars

\* the 360 s timeout elapses while somebody else holds the mutex
RefreshLockTimeout(c) ==
    /\ pc[c] = "lock"
    /\ stateLock # Free
    /\ pc' = [pc EXCEPT ![c] = "idle"]
    /\ calledBusy' = [calledBusy EXCEPT ![c] = FALSE]
    /\ Returned(c)
    /\ UNCHANGED <<channel, shutdownPc>>
    /\ UNCHANGED <<new_data, newCommit, error>>
    /\ UNCHANGED <<repoVars, sharedVars, reqVars, gqlVars>>
    /\ UNCHANGED callVars

\* refresh_data_internal_do, first half: try_update_repo, and on its failure
\* remove_dir_all + create_repo.  upd, rm, cl: whether the fetch/checkout,
\* the directory removal and the clone succeed.
RefreshUpdateRepo(c, upd, rm, cl) ==
    /\ pc[c] = "update"
    /\ IF workTree # NoTree /\ upd
       THEN \* try_update_repo: set_head(FETCH_HEAD), checkout_head(force)
            /\ workTree' = upstream
            /\ pc' = [pc EXCEPT ![c] = "parse"]
            /\ UNCHANGED <<meta, error>>
       ELSE IF rm /\ cl
       THEN \* directory thrown away and cloned anew
            /\ workTree' = upstream
            /\ pc' = [pc EXCEPT ![c] = "parse"]
            /\ UNCHANGED <<meta, error>>
       ELSE \* the clone fails: create_repo(..)? returns Err
            /\ workTree' = IF rm THEN NoTree ELSE workTree
            /\ meta' = MetaOnError(meta, clock)
            /\ error' = [error EXCEPT ![c] = "git"]
            /\ pc' = [pc EXCEPT ![c] = "unlock"]
    /\ UNCHANGED <<upstream, content, clock>>
    /\ UNCHANGED <<state, stateLock, current_data, dataCommit, redis, lastEvent>>
    /\ UNCHANGED <<new_data, newCommit, calledBusy>>
    /\ UNCHANGED <<reqVars, gqlVars, schedVars>>
    /\ UNCHANGED callVars

\* variant: refresh_data hard-resets to the first parent on Err
TreeAfterParseError_Rewind(t) == IF t > 1 THEN t - 1 ELSE t

\* refresh_data gives up on Err: the working tree is left where it is
TreeAfterParseError(t) == t

\* refresh_data_internal_do, second half: read the three data files and
\* validate the AnimData.xml files of the working tree; on success write
\* Meta; refresh_data_internal / refresh_data report the result.  reported:
\* whether the failing step sent an UpdateDatafiles error event
\* (read_and_report_error does).
RefreshParse(c, reported) ==
    /\ pc[c] = "parse"
    /\ IF content[workTree] = Unparseable
       THEN /\ lastEvent' = IF reported THEN "UpdateError" ELSE lastEvent
            /\ meta' = MetaOnError(meta, clock)
            /\ error' = [error EXCEPT ![c] = "data"]
            /\ workTree' = TreeAfterParseError(workTree)
            /\ pc' = [pc EXCEPT ![c] = "unlock"]
            /\ UNCHANGED <<new_data, newCommit>>
       ELSE /\ new_data' = [new_data EXCEPT ![c] = content[workTree]]
            /\ newCommit' = [newCommit EXCEPT ![c] = workTree]
            /\ meta' = MetaOf(workTree, clock)
            /\ lastEvent' = "UpdateOk"
            /\ pc' = [pc EXCEPT ![c] = "swap"]
            /\ UNCHANGED <<workTree, error>>
    /\ UNCHANGED <<upstream, content, clock>>
    /\ UNCHANGED <<state, stateLock, current_data, dataCommit, redis>>
    /\ UNCHANGED calledBusy
    /\ UNCHANGED <<reqVars, gqlVars, schedVars>>
    /\ UNCHANGED callVars

\* `changed = lock_data.deref() == &new_data;`
Changed(old, new) == DataEq(old, new)

\* the block holding current_data.write(): compare, swap, state = Ready
RefreshSwap(c) ==
    /\ pc[c] = "swap"
    /\ current_data' = new_data[c]
    /\ dataCommit' = newCommit[c]
    /\ state' = "Ready"
    /\ pc' = [pc EXCEPT ![c] =
                IF Changed(current_data, new_data[c]) THEN "flush" ELSE "unlock"]
    /\ UNCHANGED <<stateLock, meta, redis, lastEvent>>
    /\ UNCHANGED <<new_data, newCommit, error, calledBusy>>
    /\ UNCHANGED <<repoVars, reqVars, gqlVars, schedVars>>
    /\ UNCHANGED callVars

\* `if changed { redis.flushall(false).await.ok(); }`: an error is ignored
RefreshFlush(c, ok) ==
    /\ pc[c] = "flush"
    /\ redis' = IF ok THEN EmptyStore ELSE redis
    /\ pc' = [pc EXCEPT ![c] = "unlock"]
    /\ UNCHANGED <<state, stateLock, meta, current_data, dataCommit, lastEvent>>
    /\ UNCHANGED <<new_data, newCommit, error, calledBusy>>
    /\ UNCHANGED <<repoVars, reqVars, gqlVars, schedVars>>
    /\ UNCHANGED callVars

\* refresh() returns: the state mutex guard is dropped
RefreshReturn(c) ==
    /\ pc[c] = "unlock"
    /\ stateLock' = Free
    /\ pc' = [pc EXCEPT ![c] = "idle"]
    /\ new_data' = [new_data EXCEPT ![c] = NoData]
    /\ newCommit' = [newCommit EXCEPT ![c] = 0]
    /\ error' = [error EXCEPT ![c] = "none"]
    /\ calledBusy' = [calledBusy EXCEPT ![c] = FALSE]
    /\ Returned(c)
    /\ UNCHANGED <<channel, shutdownPc>>
    /\ UNCHANGED <<state, meta, current_data, dataCommit, redis, lastEvent>>
    /\ UNCHANGED <<repoVars, reqVars, gqlVars>>
    /\ UNCHANGED callVars

\* ------------------------------------------------------ DataRefreshScheduler

\* variant: the loop never looks at the result of recv_timeout
SleepInterrupted_Never(ch) == FALSE

\* recv_timeout(..).is_ok(): a message was in the channel
SleepInterrupted(ch) == ch > 0

\* recv_timeout ran into the timeout: SpriteCollab::refresh(..).await
SchedTimeout ==
    /\ sched = "wait"
    /\ ~SleepInterrupted(channel)
    /\ sched' = "refresh"
    /\ Call("sched")
    /\ UNCHANGED <<channel, shutdownPc>>

\* recv_timeout returned Ok(()): break, the thread ends
SchedBreak ==
    /\ sched = "wait"
    /\ SleepInterrupted(channel)
    /\ sched' = "stopped"
    /\ channel' = channel - 1
    /\ UNCHANGED shutdownPc
    /\ UNCHANGED <<repoVars, sharedVars, refreshVars, reqVars, gqlVars>>
    /\ UNCHANGED callVars

\* shutdown(): self.1.send(())
ShutdownSend ==
    /\ shutdownPc = "running"
    /\ channel' = channel + 1
    /\ shutdownPc' = "sent"
    /\ UNCHANGED sched
    /\ UNCHANGED <<repoVars, sharedVars, refreshVars, reqVars, gqlVars>>
    /\ UNCHANGED callVars

\* shutdown(): jh.unwrap().join().ok() returns once the thread has ended
ShutdownJoin ==
    /\ shutdownPc = "sent"
    /\ sched = "stopped"
    /\ shutdownPc' = "joined"
    /\ UNCHANGED <<sched, channel>>
    /\ UNCHANGED <<repoVars, sharedVars, refreshVars, reqVars, gqlVars>>
    /\ UNCHANGED callVars

\* ------------------------------------------------------------------ readers

\* SpriteCollab::data(): a read guard on current_data
Data == [data |-> current_data, commit |-> dataCommit]

\* match_and_process_assets_path: match_url, one data() block that copies
\* the config values and clones the tracker Arc, find_form, the cache key
AssetStart(r, k) ==
    /\ rpc[r] = "idle"
    /\ rpc' = [rpc EXCEPT ![r] = "get"]
    /\ key' = [key EXCEPT ![r] = k]
    /\ snap' = [snap EXCEPT ![r] = Data]
    /\ outcome' = [outcome EXCEPT ![r] = "none"]
    /\ val' = [val EXCEPT ![r] = NoValue]
    /\ ret' = [ret EXCEPT ![r] = NoRet]
    /\ UNCHANGED <<repoVars, sharedVars, refreshVars, gqlVars, schedVars>>
    /\ UNCHANGED callVars

\* cached_may_fail: `self.redis.get(cache_key).await?` and the hit branch
CacheGet(r, ok) ==
    /\ rpc[r] = "get"
    /\ IF ~ok
       THEN /\ ret' = [ret EXCEPT ![r] = [kind |-> "err", value |-> NoValue]]
            /\ rpc' = [rpc EXCEPT ![r] = "idle"]
       ELSE IF redis[key[r]] # Nil
       THEN /\ ret' = [ret EXCEPT ![r] =
                         [kind |-> "hit", value |-> Deserialize(redis[key[r]])]]
            /\ rpc' = [rpc EXCEPT ![r] = "idle"]
       ELSE /\ rpc' = [rpc EXCEPT ![r] = "produce"]
            /\ UNCHANGED ret
    /\ UNCHANGED <<key, snap, outcome, val>>
    /\ UNCHANGED <<repoVars, sharedVars, refreshVars, gqlVars, schedVars>>
    /\ UNCHANGED callVars

\* variant: every Ok value of the producer is written to redis
AfterProducer_StoreAll(o) == IF o \in {"Cache", "NoCache"} THEN "set" ELSE "idle"

\* the match on func().await: only Ok(Cache(v)) goes on to redis.set
AfterProducer(o) == IF o = "Cache" THEN "set" ELSE "idle"

\* cached_may_fail, miss branch: func().await reads the asset files of the
\* working tree; o is what the producer returns
Produce(r, o) ==
    /\ rpc[r] = "produce"
    /\ outcome' = [outcome EXCEPT ![r] = o]
    /\ rpc' = [rpc EXCEPT ![r] = AfterProducer(o)]
    /\ val' = [val EXCEPT ![r] = IF o = "Err" THEN NoValue ELSE Value(snap[r])]
    /\ ret' = [ret EXCEPT ![r] =
                 IF o = "Err" THEN [kind |-> "err", value |-> NoValue]
                 ELSE IF AfterProducer(o) = "set" THEN NoRet
                 ELSE [kind |-> "computed", value |-> Value(snap[r])]]
    /\ UNCHANGED <<key, snap>>
    /\ UNCHANGED <<repoVars, sharedVars, refreshVars, gqlVars, schedVars>>
    /\ UNCHANGED callVars

\* cached_may_fail: serde_json::to_string(&v), redis.set(..).await; a failed
\* write is logged and the computed value returned all the same
CacheSet(r, ok) ==
    /\ rpc[r] = "set"
    /\ redis' = IF ok THEN [redis EXCEPT ![key[r]] = Serialize(val[r])] ELSE redis
    /\ ret' = [ret EXCEPT ![r] = [kind |-> "computed", value |-> val[r]]]
    /\ rpc' = [rpc EXCEPT ![r] = "idle"]
    /\ UNCHANGED <<key, snap, outcome, val>>
    /\ UNCHANGED <<state, stateLock, meta, current_data, dataCommit, lastEvent>>
    /\ UNCHANGED <<repoVars, refreshVars, gqlVars, schedVars>>
    /\ UNCHANGED callVars

\* a GraphQL request resolves Monster::name: context.collab.data()
GqlFirst(g) ==
    /\ gpc[g] = "idle"
    /\ gpc' = [gpc EXCEPT ![g] = "second"]
    /\ seen1' = [seen1 EXCEPT ![g] = Data]
    /\ seen2' = [seen2 EXCEPT ![g] = NoSnap]
    /\ UNCHANGED <<repoVars, sharedVars, refreshVars, reqVars, schedVars>>
    /\ UNCHANGED callVars

\* the same request resolves Monster::forms: context.collab.data() again
GqlSecond(g) ==
    /\ gpc[g] = "second"
    /\ gpc' = [gpc EXCEPT ![g] = "idle"]
    /\ seen2' = [seen2 EXCEPT ![g] = Data]
    /\ UNCHANGED seen1
    /\ UNCHANGED <<repoVars, sharedVars, refreshVars, reqVars, schedVars>>
    /\ UNCHANGED callVars

\* ----------------------------------------------------------- specifications
Environment ==
    \/ \E d \in Contents \cup {Unparseable} : Push(d)
    \/ Tick

\* the steps of one refresh() call once it was made
Refresh(c) ==
    \/ RefreshLock(c)
    \/ \E upd, rm, cl \in BOOLEAN : RefreshUpdateRepo(c, upd, rm, cl)
    \/ \E reported \in BOOLEAN : RefreshParse(c, reported)
    \/ RefreshSwap(c)
    \/ \E ok \in BOOLEAN : RefreshFlush(c, ok)
    \/ RefreshReturn(c)

AssetRequest(r) ==
    \/ \E k \in Keys : AssetStart(r, k)
    \/ \E ok \in BOOLEAN : CacheGet(r, ok)
    \/ \E o \in {"Cache", "NoCache", "Err"} : Produce(r, o)
    \/ \E ok \in BOOLEAN : CacheSet(r, ok)

GqlRequest(g) ==
    \/ GqlFirst(g)
    \/ GqlSecond(g)

\* The refresh loop of the scheduler thread next to asset requests that go
\* through the cache.
Next ==
    \/ Environment
    \/ SchedTimeout
    \/ Refresh("sched")
    \/ \E r \in Reqs : AssetRequest(r)

Spec == Init /\ [][Next]_vars

\* The refresh loop next to GraphQL requests.
NextGql ==
    \/ Environment
    \/ SchedTimeout
    \/ Refresh("sched")
    \/ \E g \in Gqls : GqlRequest(g)

SpecGql == Init /\ [][NextGql]_vars

\* refresh() called by the scheduler thread and by another caller.
NextCallers ==
    \/ Environment
    \/ SchedTimeout
    \/ ExtCall
    \/ \E c \in Callers : Refresh(c)
    \/ \E c \in Callers : RefreshLockTimeout(c)

SpecCallers == Init /\ [][NextCallers]_vars

\* The scheduler thread and DataRefreshScheduler::shutdown.
NextScheduler ==
    \/ Environment
    \/ SchedTimeout
    \/ SchedBreak
    \/ ShutdownSend
    \/ ShutdownJoin
    \/ Refresh("sched")

SpecScheduler == Init /\ [][NextScheduler]_vars

TypeOK ==
    /\ upstream \in Commits
    /\ workTree \in Trees
    /\ clock \in 0..MaxClock
    /\ state \in {"Ready", "Refreshing"}
    /\ stateLock \in Callers \cup {Free}
    /\ current_data \in Contents
    /\ dataCommit \in Commits
    /\ \A c \in Callers : pc[c] \in {"idle", "lock", "update", "parse", "swap", "flush", "unlock"}
    /\ \A r \in Reqs : rpc[r] \in {"idle", "get", "produce", "set"}
    /\ \A g \in Gqls : gpc[g] \in {"idle", "second"}
    /\ sched \in {"wait", "refresh", "stopped"}
    /\ channel \in 0..1

\* ------------------------------------------------ tracker form resolution
\* (datafiles/tracker.rs)

MaxId     == 1       \* group ids of a monster's forms are 0..MaxId
MaxDepth  == 2       \* nesting depth of the subgroups of a monster
MaxGroups == 3       \* subgroups below a monster's root group
MaxZeros  == 2       \* zeros appended to a form path

Ids == 0..MaxId

SeqsUpTo(S, n) == UNION {[1..k -> S] : k \in 0..n}

\* prefix of a path without its last element
Front(p) == SubSeq(p, 1, Len(p) - 1)

\* the places a subgroup can have below a monster's root group; the root
\* group itself is the empty path
GroupPaths == SeqsUpTo(Ids, MaxDepth) \ {<< >>}

\* Group.name
GroupNames == {"", "Form"}

\* a monster's root group without subgroups
NoSubgroups == << >>

\* Group.subgroups, recursively: the name of every nested subgroup by its path
Subgroups(tracker) == DOMAIN tracker

\* enum FormMatch { Exact(i32), Fallback(i32) }
FormMatch == [kind : {"Exact", "Fallback"}, id : Ids]
Exact(n) == [kind |-> "Exact", id |-> n]
Fallback(n) == [kind |-> "Fallback", id |-> n]

\* the needles: as long as a form path can be
Needles == SeqsUpTo(FormMatch, MaxDepth)

\* Option<(Vec<i32>, Vec<String>, &Group)>; the &Group is the place of the
\* group in the tree
NoForm == [found |-> FALSE, path |-> << >>, names |-> << >>, group |-> << >>]
SomeForm(p, n, g) == [found |-> TRUE, path |-> p, names |-> n, group |-> g]

\* every combination gets one more element
PushAll(combinations, id) ==
    [i \in 1..Len(combinations) |-> Append(combinations[i], id)]

\* variant: a Fallback tries 0 before its own id
RECURSIVE form_match_combinations_ZeroFirst(_)
form_match_combinations_ZeroFirst(needle) ==
    IF needle = << >> THEN << << >> >>
    ELSE LET combinations == form_match_combinations_ZeroFirst(Front(needle))
             m == needle[Len(needle)]
         IN  IF m.kind = "Exact" THEN PushAll(combinations, m.id)
             ELSE PushAll(combinations, 0) \o PushAll(combinations, m.id)

\* IntoFormMatchIterator::form_match_combinations
RECURSIVE form_match_combinations(_)
form_match_combinations(needle) ==
    IF needle = << >> THEN << << >> >>
    ELSE LET combinations == form_match_combinations(Front(needle))
             m == needle[Len(needle)]
         IN  IF m.kind = "Exact" THEN PushAll(combinations, m.id)
             ELSE PushAll(combinations, m.id) \o PushAll(combinations, 0)

\* the stateful filter of find_form: zeros are dropped from the end until the
\* first element that is not 0
RECURSIVE StripTrailingZeros(_)
StripTrailingZeros(p) ==
    IF p # << >> /\ p[Len(p)] = 0 THEN StripTrailingZeros(Front(p)) ELSE p

\* variant: the possibility is traversed as it is
possibility_collapsed_Keep(p) == IF p = << >> THEN <<0>> ELSE p

\* find_form: possibility_collapsed, with the 0 pushed when nothing is left
possibility_collapsed(p) ==
    LET s == StripTrailingZeros(p) IN IF s = << >> THEN <<0>> ELSE s

\* `if !sub_group.name.is_empty() { collected_names.push(..) }`
PushName(collected_names, name) ==
    IF name # "" THEN Append(collected_names, name) ELSE collected_names

\* MonsterFormCollector::find_form_step
RECURSIVE find_form_step(_, _, _, _, _)
find_form_step(tracker, current_group, needle, collected, collected_names) ==
    IF needle = << >> THEN NoForm
    ELSE LET current == Head(needle)
             sub_group == Append(current_group, current)
         IN  IF Len(needle) > 1
             THEN IF sub_group \in Subgroups(tracker)
                  THEN find_form_step(tracker, sub_group, Tail(needle),
                                      Append(collected, current),
                                      PushName(collected_names, tracker[sub_group]))
                  ELSE NoForm
             ELSE IF current = 0
                  THEN SomeForm(collected, collected_names, current_group)
                  ELSE IF sub_group \in Subgroups(tracker)
                       THEN SomeForm(Append(collected, current),
                                     PushName(collected_names, tracker[sub_group]),
                                     sub_group)
                       ELSE NoForm

\* one pass of the loop of find_form: a possibility is collapsed and traversed
\* from the root group
Traverse(tracker, possibility) ==
    find_form_step(tracker, << >>, possibility_collapsed(possibility),
                   << >>, << >>)

\* the loop of find_form: the first possibility that traverses is returned
RECURSIVE FirstTraversal(_, _)
FirstTraversal(tracker, possibilities) ==
    IF possibilities = << >> THEN NoForm
    ELSE LET r == Traverse(tracker, Head(possibilities))
         IN  IF r.found THEN r
             ELSE FirstTraversal(tracker, Tail(possibilities))

\* MonsterFormCollector::find_form
find_form(tracker, needle) ==
    FirstTraversal(tracker, form_match_combinations(needle))

\* a pure function was called and has returned
HasReturned(f) == callee = f /\ output # << >>
Result == output[1]

\* MonsterFormCollector::collect on a monster whose subgroups are yet to be
\* read from tracker.json
InitFindForm ==
    /\ InitServer
    /\ callee = "find_form"
    /\ input = [tracker |-> NoSubgroups, needle |-> << >>]
    /\ output = << >>

\* tracker.json holds one more subgroup, below the root or below a subgroup
AddGroup(p, name) ==
    /\ callee \in {"find_form", "match_and_process_assets_path"}
    /\ output = << >>
    /\ p \notin Subgroups(input.tracker)
    /\ Len(p) > 1 => Front(p) \in Subgroups(input.tracker)
    /\ Cardinality(Subgroups(input.tracker)) < MaxGroups
    /\ input' = [input EXCEPT !.tracker = (p :> name) @@ @]
    /\ UNCHANGED <<callee, output, serverVars>>

FindFormCall(needle) ==
    /\ callee = "find_form"
    /\ output = << >>
    /\ input' = [input EXCEPT !.needle = needle]
    /\ output' = <<find_form(input.tracker, needle)>>
    /\ UNCHANGED <<callee, serverVars>>

NextFindForm ==
    \/ \E p \in GroupPaths, name \in GroupNames : AddGroup(p, name)
    \/ \E needle \in Needles : FindFormCall(needle)

SpecFindForm == InitFindForm /\ [][NextFindForm]_vars

\* --------------------------------------------------------- asset urls
\* (assets/url.rs, assets/util.rs)
\* A string is the sequence of its pieces: a separator or a digit is a piece
\* of its own, a word of a route ("assets", "portrait_recolor") is one piece.

MaxMonster == 12     \* monster ids are 0..MaxMonster

MonsterIds == 0..MaxMonster
FormPaths == SeqsUpTo(Ids, MaxDepth)
ServerUrls == {"https://srv"}

\* the variants of AssetType that match_url has a route for
ServedKinds ==
    {"PortraitCreditsTxt", "SpriteCreditsTxt", "PortraitSheet",
     "PortraitRecolorSheet", "SpriteZip", "SpriteRecolorSheet"}

DigitChars == <<"0", "1", "2", "3", "4", "5", "6", "7", "8", "9">>

\* Display of a non-negative i32
RECURSIVE Decimal(_)
Decimal(n) ==
    IF n < 10 THEN <<DigitChars[n + 1]>>
    ELSE Append(Decimal(n \div 10), DigitChars[(n % 10) + 1])

\* format!("{:04}", v)
Fmt04(v) ==
    LET d == Decimal(v)
    IN  IF Len(d) < 4 THEN [i \in 1..(4 - Len(d)) |-> "0"] \o d ELSE d

\* Itertools::join
RECURSIVE Join(_, _)
Join(parts, sep) ==
    IF parts = << >> THEN << >>
    ELSE IF Len(parts) = 1 THEN parts[1]
    ELSE parts[1] \o <<sep>> \o Join(Tail(parts), sep)

\* util::join_form
join_form(form_path, with_leading_slash, character) ==
    LET form_joined ==
            Join([i \in 1..Len(form_path) |-> Fmt04(form_path[i])], character)
    IN  IF form_joined # << >> /\ with_leading_slash
        THEN <<character>> \o form_joined
        ELSE form_joined

\* util::join_monster_and_form
join_monster_and_form(monster_idx, form_path, character) ==
    Fmt04(monster_idx) \o join_form(form_path, TRUE, character)

\* util::force_non_shiny_group: index 1 becomes 0, trailing zeros are popped
force_non_shiny_group(group) ==
    LET collected ==
            IF Len(group) >= 2 THEN [group EXCEPT ![2] = 0] ELSE group
    IN  StripTrailingZeros(collected)

\* util::force_shiny_group: index 1 becomes 1, shorter paths are padded
force_shiny_group(group) ==
    IF Len(group) >= 2 THEN [group EXCEPT ![2] = 1]
    ELSE IF Len(group) = 1 THEN Append(group, 1)
    ELSE <<0, 1>>

\* url::get_url for the kinds served by this server
get_url(asset_type, this_srv_url, monster_id, path_to_form) ==
    LET dash(p) == join_monster_and_form(monster_id, p, "-")
        slash(p) == join_monster_and_form(monster_id, p, "/")
    IN  <<this_srv_url>> \o
        CASE asset_type = "PortraitCreditsTxt" ->
                <<"/", "assets", "/", "portrait", "-", "credits", "-">>
                    \o dash(path_to_form) \o <<".", "txt">>
          [] asset_type = "SpriteCreditsTxt" ->
                <<"/", "assets", "/", "sprite", "-", "credits", "-">>
                    \o dash(path_to_form) \o <<".", "txt">>
          [] asset_type = "PortraitSheet" ->
                <<"/", "assets", "/", "portrait", "-">>
                    \o dash(path_to_form) \o <<".", "png">>
          [] asset_type = "PortraitRecolorSheet" ->
                <<"/", "assets", "/", "portrait_recolor", "-">>
                    \o dash(force_shiny_group(path_to_form)) \o <<".", "png">>
          [] asset_type = "SpriteZip" ->
                <<"/", "assets", "/">>
                    \o slash(path_to_form) \o <<"/", "sprites", ".", "zip">>
          [] asset_type = "SpriteRecolorSheet" ->
                <<"/", "assets", "/", "sprite_recolor", "-">>
                    \o dash(force_shiny_group(path_to_form)) \o <<".", "png">>

\* the path of an url made by get_url: what follows the server's address
UrlPath(url) == Tail(url)

\* variant: the path is matched as it was requested
ReplaceDashes_Keep(path) == path

\* match_url: path.replace('-', "/")
ReplaceDashes(path) ==
    [i \in 1..Len(path) |-> IF path[i] = "-" THEN "/" ELSE path[i]]

\* the routes added to the Router: what precedes *formpath, what follows it
\* (the routes that are added a second time are the same routes)
Routes ==
    << [before |-> <<"/", "assets", "/", "portrait", "/", "credits", "/">>,
        glob |-> TRUE, after |-> <<".", "txt">>,
        handler |-> "PortraitCreditsTxt"],
       [before |-> <<"/", "assets", "/", "sprite", "/", "credits", "/">>,
        glob |-> TRUE, after |-> <<".", "txt">>,
        handler |-> "SpriteCreditsTxt"],
       [before |-> <<"/", "assets", "/", "portrait", "/">>,
        glob |-> TRUE, after |-> <<".", "png">>,
        handler |-> "PortraitSheet"],
       [before |-> <<"/", "assets", "/", "portrait_recolor", "/">>,
        glob |-> TRUE, after |-> <<".", "png">>,
        handler |-> "PortraitRecolorSheet"],
       [before |-> <<"/", "assets", "/">>,
        glob |-> TRUE, after |-> <<"/", "sprites", ".", "zip">>,
        handler |-> "SpriteZip"],
       [before |-> <<"/", "assets", "/", "sprite_recolor", "/">>,
        glob |-> TRUE, after |-> <<".", "png">>,
        handler |-> "SpriteRecolorSheet"],
       [before |-> <<"/", "assets", "/", "sprites", ".", "zip">>,
        glob |-> FALSE, after |-> << >>,
        handler |-> "SpriteZip"] >>

\* a route matches a path: *formpath stands for one piece or more
RouteMatches(route, path) ==
    IF route.glob
    THEN /\ Len(path) > Len(route.before) + Len(route.after)
         /\ SubSeq(path, 1, Len(route.before)) = route.before
         /\ SubSeq(path, Len(path) - Len(route.after) + 1, Len(path)) = route.after
    ELSE path = route.before

\* Params::find("formpath") of a match
FormPathParam(route, path) ==
    SubSeq(path, Len(route.before) + 1, Len(path) - Len(route.after))

\* str::split
RECURSIVE Split(_, _)
Split(s, sep) ==
    IF \A i \in 1..Len(s) : s[i] # sep THEN <<s>>
    ELSE LET i == CHOOSE k \in 1..Len(s) :
                      s[k] = sep /\ \A j \in 1..(k - 1) : s[j] # sep
         IN  <<SubSeq(s, 1, i - 1)>> \o Split(SubSeq(s, i + 1, Len(s)), sep)

IsDigit(ch) == \E d \in 1..10 : DigitChars[d] = ch
DigitValue(ch) == (CHOOSE d \in 1..10 : DigitChars[d] = ch) - 1

\* str::parse::<i32> is Ok: digits only, and one at least
Parses(x) == x # << >> /\ \A i \in 1..Len(x) : IsDigit(x[i])

\* str::parse::<i32>: the value, leading zeros or not
RECURSIVE ParseI32(_)
ParseI32(x) ==
    IF x = << >> THEN 0
    ELSE 10 * ParseI32(Front(x)) + DigitValue(x[Len(x)])

\* Option<(i32, VecDeque<i32>, AssetType)>
NoMatch == [found |-> FALSE, monster |-> 0, form |-> << >>, kind |-> ""]
SomeMatch(m, p, k) == [found |-> TRUE, monster |-> m, form |-> p, kind |-> k]

\* Router::recognize: of the routes that match, the one with most statics
Recognize(path) ==
    LET matching == {i \in 1..Len(Routes) : RouteMatches(Routes[i], path)}
        statics(i) == Len(Routes[i].before) + Len(Routes[i].after)
    IN  IF matching = {} THEN 0
        ELSE CHOOSE i \in matching : \A j \in matching : statics(j) <= statics(i)

\* url::match_url
match_url(path) ==
    LET m == Recognize(ReplaceDashes(path))
    IN  IF m = 0 \/ ~Routes[m].glob THEN NoMatch
        ELSE LET x == Split(FormPathParam(Routes[m], ReplaceDashes(path)), "/")
             IN  IF \E i \in 1..Len(x) : ~Parses(x[i]) THEN NoMatch
                 ELSE SomeMatch(ParseI32(x[1]),
                                [i \in 1..(Len(x) - 1) |-> ParseI32(x[i + 1])],
                                Routes[m].handler)

\* an url is about to be made for a form of a monster
InitUrl ==
    /\ InitServer
    /\ callee = "get_url"
    /\ input \in [asset_type : ServedKinds, this_srv_url : ServerUrls,
                   monster_id : MonsterIds, path_to_form : FormPaths]
    /\ output = << >>

\* the GraphQL schema calls get_url
GetUrl ==
    /\ callee = "get_url"
    /\ output = << >>
    /\ output' = <<get_url(input.asset_type, input.this_srv_url,
                           input.monster_id, input.path_to_form)>>
    /\ UNCHANGED <<callee, input, serverVars>>

\* a client requests the url: match_and_process_assets_path calls match_url
MatchUrl ==
    /\ callee = "get_url"
    /\ Len(output) = 1
    /\ output' = <<output[1], match_url(UrlPath(output[1]))>>
    /\ UNCHANGED <<callee, input, serverVars>>

NextUrl ==
    \/ GetUrl
    \/ MatchUrl

SpecUrl == InitUrl /\ [][NextUrl]_vars

\* ------------------------------------------- form of a requested asset
\* (assets/mod.rs, match_and_process_assets_path)

\* the form paths a request can name: one element more than any form has
RequestPaths == SeqsUpTo(Ids, MaxDepth + 1)

ExactPath(p) == [i \in 1..Len(p) |-> Exact(p[i])]

\* variant: the sprite recolor sheet is looked up under the shiny form
FormNeedle_ShinySprite(asset_type, form_path) ==
    CASE asset_type = "PortraitRecolorSheet" ->
            ExactPath(force_non_shiny_group(form_path))
      [] asset_type = "SpriteRecolorSheet" ->
            ExactPath(force_shiny_group(form_path))
      [] OTHER -> ExactPath(form_path)

\* the needle that the handler hands to find_form
FormNeedle(asset_type, form_path) ==
    CASE asset_type = "PortraitRecolorSheet" ->
            ExactPath(force_non_shiny_group(form_path))
      [] asset_type = "SpriteRecolorSheet" ->
            ExactPath(force_non_shiny_group(form_path))
      [] OTHER -> ExactPath(form_path)

\* MonsterFormCollector::collect found the monster of the request; its
\* subgroups are yet to be read from tracker.json
InitAssetForm ==
    /\ InitServer
    /\ callee = "match_and_process_assets_path"
    /\ input = [tracker |-> NoSubgroups, asset_type |-> "", form_path |-> << >>]
    /\ output = << >>

\* match_url returned (monster, form_path, asset_type): the form is resolved
ResolveForm(asset_type, form_path) ==
    /\ callee = "match_and_process_assets_path"
    /\ output = << >>
    /\ input' = [input EXCEPT !.asset_type = asset_type, !.form_path = form_path]
    /\ output' = <<FormNeedle(asset_type, form_path),
                   find_form(input.tracker, FormNeedle(asset_type, form_path))>>
    /\ UNCHANGED <<callee, serverVars>>

\* the forms of the monster are all named here
NextAssetForm ==
    \/ \E p \in GroupPaths : AddGroup(p, "Form")
    \/ \E k \in ServedKinds, p \in RequestPaths : ResolveForm(k, p)

SpecAssetForm == InitAssetForm /\ [][NextAssetForm]_vars

\* --------------------------------------------------------- credit ids
\* (sc-common/src/credit_row.rs, datafiles/credit_names.rs)

MaxLen == 6          \* characters of a credit_id field

CreditIdChars == {"<", "@", "!", ">", "1", "a"}
CreditIdFields == SeqsUpTo(CreditIdChars, MaxLen)

\* \d+ from position i on: the digits up to the first character that is none
RECURSIVE DigitRun(_, _)
DigitRun(s, i) ==
    IF i <= Len(s) /\ IsDigit(s[i]) THEN <<s[i]>> \o DigitRun(s, i + 1)
    ELSE << >>

\* the Regex <@!(\d+)> matches at position i
DiscordRegexAt(s, i) ==
    /\ i + 2 <= Len(s)
    /\ s[i] = "<"
    /\ s[i + 1] = "@"
    /\ s[i + 2] = "!"
    /\ DigitRun(s, i + 3) # << >>
    /\ i + 3 + Len(DigitRun(s, i + 3)) <= Len(s)
    /\ s[i + 3 + Len(DigitRun(s, i + 3))] = ">"

\* parse_credit_id: Regex::captures finds the leftmost match anywhere in the
\* field; group 1 is returned, or the field when there is no match
parse_credit_id(credit_id_raw) ==
    IF \E i \in 1..Len(credit_id_raw) : DiscordRegexAt(credit_id_raw, i)
    THEN LET i == CHOOSE k \in 1..Len(credit_id_raw) :
                      /\ DiscordRegexAt(credit_id_raw, k)
                      /\ \A j \in 1..(k - 1) : ~DiscordRegexAt(credit_id_raw, j)
         IN  DigitRun(credit_id_raw, i + 3)
    ELSE credit_id_raw

\* a credit_id field is about to be deserialized
InitCreditId ==
    /\ InitServer
    /\ callee = "parse_credit_id"
    /\ input \in CreditIdFields
    /\ output = << >>

\* cleanup_discord_id calls parse_credit_id
ParseCreditId ==
    /\ callee = "parse_credit_id"
    /\ output = << >>
    /\ output' = <<parse_credit_id(input)>>
    /\ UNCHANGED <<callee, input, serverVars>>

\* the cleaned id is written out and read in again
ParseCreditIdAgain ==
    /\ callee = "parse_credit_id"
    /\ Len(output) = 1
    /\ output' = <<output[1], parse_credit_id(output[1])>>
    /\ UNCHANGED <<callee, input, serverVars>>

NextCreditId ==
    \/ ParseCreditId
    \/ ParseCreditIdAgain

SpecCreditId == InitCreditId /\ [][NextCreditId]_vars

\* ------------------------------------------------------- credits.txt
\* (sc-activity-rec/src/local_credits_file.rs)
\* A file is the sequence of its rows, a row the sequence of its fields, a
\* field the sequence of its pieces.

MaxTime == 2         \* times are 0..MaxTime (seconds from the cutover on)
MaxRows == 2         \* rows of the files a call reads, taken together

Times == 0..MaxTime

\* the texts of the times 0, 1, 2, ..
DateTexts ==
    <<"2022-05-07 19:29:49", "2022-05-07 19:29:50", "2022-05-07 19:29:51",
      "2022-05-07 19:29:52", "2022-05-07 19:29:53">>
DateField(t) == <<DateTexts[t + 1]>>
BadDateField == <<"yesterday">>

\* the keys a map of credits can have here
MapKeys == {"Happy", "Sad", "?", "false", "Unknown"}
NoCredits == [k \in MapKeys |-> << >>]

\* parse_time is Ok
TimeParses(field) == \E t \in Times : field = DateField(t)
\* parse_time
parse_time(field) == CHOOSE t \in Times : field = DateField(t)

\* parse_items: split(',')
parse_items(field) ==
    {s[1] : s \in {x \in {Split(field, ",")[i] : i \in 1..Len(Split(field, ","))} :
                      x # << >>}}

\* Result<LocalCreditRow, csv::Error> of one record: the fields are taken by
\* position, a missing field and a date that does not parse are both a
\* DeserializeErrorKind::Message
DeserializeRow(row, columns) ==
    IF Len(row) < columns \/ ~TimeParses(row[1])
    THEN [ok |-> FALSE, date |-> 0, credit_id |-> << >>, items |-> {}]
    ELSE [ok |-> TRUE, date |-> parse_time(row[1]),
          credit_id |-> parse_credit_id(row[2]),
          items |-> IF columns >= 3 THEN parse_items(row[3]) ELSE {}]

\* the Reader is not flexible: a record is an error when it has another
\* number of fields than the first one
UnequalLengths(file, i) == Len(file[i]) # Len(file[1])

\* Option<DateTime<Utc>>::None
NoUntil == -1

\* DataReadResult<HashMap<String, String>>
CreditsOk(map) == [ok |-> TRUE, err |-> "", map |-> map]
CreditsErr(kind) == [ok |-> FALSE, err |-> kind, map |-> NoCredits]

\* do_get_credits: `if until < record.date { break; }`
PastUntil(until, date) == until # NoUntil /\ until < date

\* do_get_credits, the loop from record i on
RECURSIVE ReadCredits(_, _, _, _)
ReadCredits(file, i, until, latest_credits) ==
    IF i > Len(file) THEN CreditsOk(latest_credits)
    ELSE IF UnequalLengths(file, i) THEN CreditsErr("UnequalLengths")
    ELSE LET record == DeserializeRow(file[i], 3)
         IN  IF ~record.ok THEN CreditsErr("Message")
             ELSE IF PastUntil(until, record.date) THEN CreditsOk(latest_credits)
             ELSE ReadCredits(file, i + 1, until,
                      [k \in MapKeys |->
                          IF k \in record.items THEN record.credit_id
                          ELSE latest_credits[k]])

do_get_credits(file, until) == ReadCredits(file, 1, until, NoCredits)
get_latest_credits(file) == do_get_credits(file, NoUntil)
get_credits_until(file, until) == do_get_credits(file, until)

\* get_last_credits_old_format: the last record decides
get_last_credits_old_format(file) ==
    IF file = << >> THEN [ok |-> TRUE, err |-> "", id |-> << >>]
    ELSE IF UnequalLengths(file, Len(file))
    THEN [ok |-> FALSE, err |-> "UnequalLengths", id |-> << >>]
    ELSE LET record == DeserializeRow(file[Len(file)], 2)
         IN  IF record.ok THEN [ok |-> TRUE, err |-> "", id |-> record.credit_id]
             ELSE [ok |-> FALSE, err |-> "Message", id |-> << >>]

\* the credit_id field of row i: a mention, or the bare id
IdField(i) ==
    IF i % 2 = 1 THEN <<"<", "@", "!", DigitChars[i + 1], ">">>
    ELSE <<DigitChars[i + 1]>>

\* the rows of a credits.txt: date, credit_id and items, or these with the
\* two columns obsolete_flag and license ahead of the items
RowShapes ==
    [date : Times, columns : {3, 5},
     items : {<<"Happy">>, <<"Happy", ",", "Sad">>}]
MakeRow(shape, i) ==
    IF shape.columns = 3
    THEN <<DateField(shape.date), IdField(i), shape.items>>
    ELSE <<DateField(shape.date), IdField(i), <<"false">>, <<"Unknown">>,
           shape.items>>
MakeFile(shapes) == [i \in 1..Len(shapes) |-> MakeRow(shapes[i], i)]

\* a credits.txt is about to be read up to a time
InitCreditsFile ==
    /\ InitServer
    /\ callee = "get_credits_until"
    /\ \E shapes \in SeqsUpTo(RowShapes, MaxRows), until \in Times :
           input = [file |-> MakeFile(shapes), until |-> until]
    /\ output = << >>

GetCreditsUntil ==
    /\ callee = "get_credits_until"
    /\ output = << >>
    /\ output' = <<get_credits_until(input.file, input.until)>>
    /\ UNCHANGED <<callee, input, serverVars>>

NextCreditsFile == GetCreditsUntil

SpecCreditsFile == InitCreditsFile /\ [][NextCreditsFile]_vars

\* ---------------------------------------------------- credit resolver
\* (sc-activity-rec/src/lib.rs)

\* CREDIT_CONSISTENCY_TIME, 2022-05-07 19:29:49 UTC: the time 0
CutoverTime == 0

\* info.asset.name() of the asset whose author is looked for
AssetName == "Happy"

\* the commits old_credit_lookup knows by their id, and any other commit
CommitIds ==
    {"99a41c3c379300aefa42f95568b658c3b9986057",
     "366d2dbceb2736bd5316c9e492ddfa6c7cdc8fab", "other"}
\* SpritePathInfo: monster_idx and path_to_form
PathInfos ==
    {[monster_idx |-> 222, path_to_form |-> <<1>>],
     [monster_idx |-> 150, path_to_form |-> <<2, 1>>]}

\* Result<WrappedBlob, ActivityRecError> of read_file_at_commit
NoFile == [present |-> FALSE, rows |-> << >>]
FileOf(rows) == [present |-> TRUE, rows |-> rows]

\* Result<CreditCertainty, ActivityRecError>
Certain(id) == [kind |-> "Certain", id |-> id]
Maybe(id) == [kind |-> "Maybe", id |-> id]
MissingCredits == [kind |-> "MissingCredits", id |-> << >>]
DataReadErr == [kind |-> "DataReadError", id |-> << >>]
GitErr == [kind |-> "Git", id |-> << >>]
IsOk(r) == r.kind \in {"Certain", "Maybe"}

\* variant: "?" is looked up before the asset's name
LookupCredits_QuestionFirst(current_credits, certain) ==
    IF current_credits["?"] # << >> THEN Maybe(current_credits["?"])
    ELSE IF current_credits[AssetName] # << >>
    THEN IF certain THEN Certain(current_credits[AssetName])
         ELSE Maybe(current_credits[AssetName])
    ELSE MissingCredits

\* the two lookups in a map of credits: the asset's name, then "?"
LookupCredits(current_credits, certain) ==
    IF current_credits[AssetName] # << >>
    THEN IF certain THEN Certain(current_credits[AssetName])
         ELSE Maybe(current_credits[AssetName])
    ELSE IF current_credits["?"] # << >> THEN Maybe(current_credits["?"])
    ELSE MissingCredits

\* old_credit_lookup: csv::ErrorKind::Deserialize with a
\* DeserializeErrorKind::Message is what the old format is tried on
RetryOldFormat(err) == err = "Message"

\* Activities::old_credit_lookup
old_credit_lookup(commit_id, info, file_at_commit) ==
    IF /\ commit_id = "99a41c3c379300aefa42f95568b658c3b9986057"
       /\ info.monster_idx = 222
       /\ info.path_to_form = <<1>>
    THEN Certain(<<"356635814668664832">>)
    ELSE IF /\ commit_id = "366d2dbceb2736bd5316c9e492ddfa6c7cdc8fab"
            /\ info.monster_idx = 150
            /\ info.path_to_form = <<2, 1>>
    THEN Certain(<<"593113130213572610">>)
    ELSE IF ~file_at_commit.present THEN GitErr
    ELSE LET current_credits == get_latest_credits(file_at_commit.rows)
         IN  IF current_credits.ok
             THEN LookupCredits(current_credits.map, TRUE)
             ELSE IF RetryOldFormat(current_credits.err)
             THEN LET old == get_last_credits_old_format(file_at_commit.rows)
                  IN  IF ~old.ok THEN DataReadErr
                      ELSE IF old.id # << >> THEN Maybe(old.id)
                      ELSE MissingCredits
             ELSE DataReadErr

\* Activities::new_credit_lookup
new_credit_lookup(commit_id, info, time, file_head, file_at_commit) ==
    IF ~file_head.present
    THEN old_credit_lookup(commit_id, info, file_at_commit)
    ELSE LET current_credits == get_credits_until(file_head.rows, time)
         IN  IF ~current_credits.ok THEN MissingCredits
             ELSE IF IsOk(LookupCredits(current_credits.map, TRUE))
             THEN LookupCredits(current_credits.map, TRUE)
             ELSE IF IsOk(old_credit_lookup(commit_id, info, file_at_commit))
             THEN old_credit_lookup(commit_id, info, file_at_commit)
             ELSE LET latest == get_latest_credits(file_head.rows)
                  IN  IF latest.ok THEN LookupCredits(latest.map, FALSE)
                      ELSE MissingCredits

\* Activities::get_credit_id
get_credit_id(commit_id, info, commit_time, file_head, file_at_commit) ==
    IF commit_time > CutoverTime
    THEN new_credit_lookup(commit_id, info, commit_time, file_head, file_at_commit)
    ELSE old_credit_lookup(commit_id, info, file_at_commit)

\* the rows of the credits.txt of a form at HEAD and at the commit's tree:
\* rows of two columns (the old format) and rows of three
ResolverRowShapes(dates) ==
    [date : dates, items : {<< >>, <<"Happy">>, <<"?">>}]
ResolverRow(shape, id) ==
    IF shape.items = << >> THEN <<shape.date, id>>
    ELSE <<shape.date, id, shape.items>>
HeadDates == {DateField(t) : t \in Times} \cup {BadDateField}
CommitDates == {DateField(CutoverTime), BadDateField}
\* the ids of the rows at HEAD are 1, 2, .., those of the rows at the commit
\* are the mentions <@!6>, <@!7>, ..
HeadFile(shapes) ==
    [i \in 1..Len(shapes) |-> ResolverRow(shapes[i], <<DigitChars[i + 1]>>)]
CommitFile(shapes) ==
    [i \in 1..Len(shapes) |->
        ResolverRow(shapes[i], <<"<", "@", "!", DigitChars[i + 6], ">">>)]
HeadFiles(n) ==
    {NoFile} \cup
    {FileOf(HeadFile(s)) : s \in SeqsUpTo(ResolverRowShapes(HeadDates), n)}
CommitFiles(n) ==
    {NoFile} \cup
    {FileOf(CommitFile(s)) : s \in SeqsUpTo(ResolverRowShapes(CommitDates), n)}

\* a commit changed an asset of a form: its author is about to be looked up
InitCredits ==
    /\ InitServer
    /\ callee = "get_credit_id"
    /\ \E h \in 0..MaxRows :
       \E head \in HeadFiles(h), at_commit \in CommitFiles(MaxRows - h) :
           /\ Len(head.rows) = h \/ (h = 0 /\ ~head.present)
           /\ input \in [commit_id : CommitIds, info : PathInfos,
                         commit_time : Times,
                         file_head : {head}, file_at_commit : {at_commit}]
    /\ output = << >>

GetCreditId ==
    /\ callee = "get_credit_id"
    /\ output = << >>
    /\ output' = <<get_credit_id(input.commit_id, input.info, input.commit_time,
                                 input.file_head, input.file_at_commit)>>
    /\ UNCHANGED <<callee, input, serverVars>>

NextCredits == GetCreditId

SpecCredits == InitCredits /\ [][NextCredits]_vars

\* ------------------------------------------------------- fuzzy search
\* (search.rs)

MaxKeys  == 2        \* index keys handed to fuzzy_find
MaxIdx   == 2        \* record ids are 1..MaxIdx
MaxScore == 2        \* scores of the matcher are 0..MaxScore

\* Option<i64> of SkimMatcherV2::fuzzy_match for a key and the query
NoScore == [some |-> FALSE, score |-> 0]
SomeScore(n) == [some |-> TRUE, score |-> n]
Scores == {NoScore} \cup {SomeScore(n) : n \in 0..MaxScore}

\* the ids of a key, a Vec<usize> in the order of the rows
RECURSIVE Ascending(_)
Ascending(S) ==
    IF S = {} THEN << >>
    ELSE LET m == CHOOSE x \in S : \A y \in S : x <= y
         IN  <<m>> \o Ascending(S \ {m})
IdVecs == {Ascending(S) : S \in (SUBSET (1..MaxIdx)) \ {{}}}

\* an item of the iterator, with the score its key gets
IndexEntries == [fuzzy_match : Scores, vals : IdVecs]

\* do_fuzzy_match: the (score, val) pairs of a key, None as no pairs
do_fuzzy_match(entry) ==
    IF ~entry.fuzzy_match.some THEN << >>
    ELSE IF entry.fuzzy_match.score <= 0 THEN << >>
    ELSE [i \in 1..Len(entry.vals) |->
             [score |-> entry.fuzzy_match.score, val |-> entry.vals[i]]]

\* filter_map(do_fuzzy_match).flatten().collect()
RECURSIVE Collect(_)
Collect(iter) ==
    IF iter = << >> THEN << >>
    ELSE do_fuzzy_match(Head(iter)) \o Collect(Tail(iter))

\* variant: the lowest score comes first
ComesFirst_Ascending(score_a, score_b) == score_a < score_b

\* the comparator of sort_by, score_b.cmp(score_a): a sorts before b
ComesFirst(score_a, score_b) == score_a > score_b

\* slice::sort_by is stable: an element goes in front of the first one it
\* sorts before
SortedInsert(sorted, x) ==
    LET ahead == {i \in 1..Len(sorted) : ComesFirst(x.score, sorted[i].score)}
        at == IF ahead = {} THEN Len(sorted) + 1
              ELSE CHOOSE i \in ahead : \A j \in ahead : i <= j
    IN  SubSeq(sorted, 1, at - 1) \o <<x>> \o SubSeq(sorted, at, Len(sorted))

RECURSIVE SortBy(_)
SortBy(v) ==
    IF v = << >> THEN << >>
    ELSE SortedInsert(SortBy(Front(v)), v[Len(v)])

\* Itertools::unique: the first occurrence of every element
RECURSIVE Unique(_)
Unique(v) ==
    IF v = << >> THEN << >>
    ELSE LET u == Unique(Front(v))
         IN  IF \E i \in 1..Len(u) : u[i] = v[Len(v)] THEN u
             ELSE Append(u, v[Len(v)])

\* search::fuzzy_find
fuzzy_find(iter) ==
    LET search_result == SortBy(Collect(iter))
    IN  Unique([i \in 1..Len(search_result) |-> search_result[i].val])

\* an index and a query: every key has its score
InitSearch ==
    /\ InitServer
    /\ callee = "fuzzy_find"
    /\ input \in SeqsUpTo(IndexEntries, MaxKeys)
    /\ output = << >>

FuzzyFind ==
    /\ callee = "fuzzy_find"
    /\ output = << >>
    /\ output' = <<fuzzy_find(input)>>
    /\ UNCHANGED <<callee, input, serverVars>>

NextSearch == FuzzyFind

SpecSearch == InitSearch /\ [][NextSearch]_vars

\* ------------------------------------------------ sprite frames, duplicates
\* (assets/sprite_sheets.rs)
\* A frame is its texture, a DynamicImage of width x height pixels, and its
\* SpriteOffsets.  A pixel is the number of its colour, 0 is transparent.

MaxWidth      == 2   \* textures have at most this many pixels
MaxCandidates == 3   \* candidate frames get_sprite_frames goes through

Colours == {0, 1}
Pixels(w, h) == (0..(w - 1)) \X (0..(h - 1))
Image(w, h, px) == [width |-> w, height |-> h, px |-> px]
ImageSizes ==
    {s \in (1..MaxWidth) \X (1..MaxWidth) : s[1] * s[2] <= MaxWidth}
Images ==
    UNION {{Image(s[1], s[2], px) : px \in [Pixels(s[1], s[2]) -> Colours]} :
              s \in ImageSizes}

\* struct SpriteOffsets
Offsets(center, head, lhand, rhand) ==
    [center_x |-> center[1], center_y |-> center[2],
     head_x |-> head[1], head_y |-> head[2],
     lhand_x |-> lhand[1], lhand_y |-> lhand[2],
     rhand_x |-> rhand[1], rhand_y |-> rhand[2]]

\* the anchors of a frame lie in the top row of its texture
AnchorsIn(img) == (0..(img.width - 1)) \X {0}
SpriteFrame(img, offsets) == [img |-> img, offsets |-> offsets]
SpriteFrames ==
    UNION {{SpriteFrame(img, Offsets(c, h, l, r)) :
               c \in AnchorsIn(img), h \in AnchorsIn(img),
               l \in AnchorsIn(img), r \in AnchorsIn(img)} : img \in Images}

\* imgs_equal
imgs_equal(img1, img2, flip) ==
    IF img1.width # img2.width \/ img1.height # img2.height THEN FALSE
    ELSE \A xx \in 0..(img1.width - 1), yy \in 0..(img1.height - 1) :
             LET x2 == IF flip THEN img1.width - 1 - xx ELSE xx
             IN  img1.px[<<xx, yy>>] = img2.px[<<x2, yy>>]

\* variant: a flipped anchor is img_width - x
FlipX_NoMinusOne(img_width, x) == img_width - x

\* offsets_equal: `img_width - offset2.center_x - 1`
FlipX(img_width, x) == img_width - x - 1

\* offsets_equal
offsets_equal(offset1, offset2, img_width, flip) ==
    LET center == IF flip THEN <<FlipX(img_width, offset2.center_x), offset2.center_y>>
                  ELSE <<offset2.center_x, offset2.center_y>>
        head == IF flip THEN <<FlipX(img_width, offset2.head_x), offset2.head_y>>
                ELSE <<offset2.head_x, offset2.head_y>>
        lhand == IF flip THEN <<FlipX(img_width, offset2.lhand_x), offset2.lhand_y>>
                 ELSE <<offset2.lhand_x, offset2.lhand_y>>
        rhand == IF flip THEN <<FlipX(img_width, offset2.rhand_x), offset2.rhand_y>>
                 ELSE <<offset2.rhand_x, offset2.rhand_y>>
    IN  IF <<offset1.center_x, offset1.center_y>> # center THEN FALSE
        ELSE IF <<offset1.head_x, offset1.head_y>> # head THEN FALSE
        ELSE IF <<offset1.lhand_x, offset1.lhand_y>> # lhand THEN FALSE
        ELSE IF <<offset1.rhand_x, offset1.rhand_y>> # rhand THEN FALSE
        ELSE TRUE

\* variant: only the comparison as-is
IsDupeOf_AsIsOnly(final, frame) ==
    /\ imgs_equal(final.img, frame.img, FALSE)
    /\ offsets_equal(final.offsets, frame.offsets, frame.img.width, FALSE)

\* get_sprite_frames, the body of `for (final_frame, final_offset) in &frames`:
\* the candidate is compared as-is, then flipped
IsDupeOf(final, frame) ==
    \/ /\ imgs_equal(final.img, frame.img, FALSE)
       /\ offsets_equal(final.offsets, frame.offsets, frame.img.width, FALSE)
    \/ /\ imgs_equal(final.img, frame.img, TRUE)
       /\ offsets_equal(final.offsets, frame.offsets, frame.img.width, TRUE)

\* get_sprite_frames: `let mut is_dupe = false; for .. { .. break; }`
is_dupe(frames, frame) == \E i \in 1..Len(frames) : IsDupeOf(frames[i], frame)

\* the frame reflected horizontally, its anchors with it
MirrorImage(img) ==
    Image(img.width, img.height,
          [p \in Pixels(img.width, img.height) |->
              img.px[<<img.width - 1 - p[1], p[2]>>]])
MirrorOffsets(o, w) ==
    Offsets(<<w - 1 - o.center_x, o.center_y>>, <<w - 1 - o.head_x, o.head_y>>,
            <<w - 1 - o.lhand_x, o.lhand_y>>, <<w - 1 - o.rhand_x, o.rhand_y>>)
Mirror(f) == SpriteFrame(MirrorImage(f.img), MirrorOffsets(f.offsets, f.img.width))

\* two frames are about to be compared
InitDupe ==
    /\ InitServer
    /\ callee = "is_dupe"
    /\ input \in [a : SpriteFrames, b : SpriteFrames]
    /\ output = << >>

\* the comparisons of the two frames, of each with itself and with its mirror
CompareFrames ==
    /\ callee = "is_dupe"
    /\ output = << >>
    /\ output' = <<[ab |-> IsDupeOf(input.a, input.b),
                    ba |-> IsDupeOf(input.b, input.a),
                    aa |-> IsDupeOf(input.a, input.a),
                    am |-> IsDupeOf(input.a, Mirror(input.a)),
                    ma |-> IsDupeOf(Mirror(input.a), input.a)]>>
    /\ UNCHANGED <<callee, input, serverVars>>

NextDupe == CompareFrames

SpecDupe == InitDupe /\ [][NextDupe]_vars

\* the candidates of get_sprite_frames: textures of two pixels in a row, the
\* four anchors on one pixel
Candidates ==
    {SpriteFrame(Image(2, 1, px), Offsets(p, p, p, p)) :
        px \in [Pixels(2, 1) -> Colours], p \in (0..1) \X {0}}

\* get_sprite_frames starts with `frames` empty
InitDedup ==
    /\ InitServer
    /\ callee = "get_sprite_frames"
    /\ input = << >>
    /\ output = << << >>, << >> >>

\* get_sprite_frames, lines 222-244, for the next candidate: output is
\* `frames` and the is_dupe of every candidate so far
PushCandidate(frame_tex) ==
    /\ callee = "get_sprite_frames"
    /\ Len(input) < MaxCandidates
    /\ input' = Append(input, frame_tex)
    /\ output' = <<IF is_dupe(output[1], frame_tex) THEN output[1]
                   ELSE Append(output[1], frame_tex),
                   Append(output[2], is_dupe(output[1], frame_tex))>>
    /\ UNCHANGED <<callee, serverVars>>

NextDedup == \E f \in Candidates : PushCandidate(f)

SpecDedup == InitDedup /\ [][NextDedup]_vars

\* ------------------------------------------- sprite frames of an anim sheet
\* (assets/sprite_sheets.rs: get_sprite_frames and what it calls)

MaxCols == 2         \* frames in a row of an anim sheet

\* Rgba<u8>
Rgba(r, g, b, a) == [r |-> r, g |-> g, b |-> b, a |-> a]
Transparent == Rgba(0, 0, 0, 0)
AnimColours == {Transparent, Rgba(90, 60, 30, 255)}
\* no anchor, black, red, and a pixel that is green and blue at once
OffsetColours ==
    {Transparent, Rgba(0, 0, 0, 255), Rgba(255, 0, 0, 255), Rgba(0, 255, 255, 255)}

\* Option<(i32, i32)>
None == << >>
Some(x, y) == <<x, y>>

\* the tile_bounds of the cells of a sheet in the order of the two loops:
\* `(0..img.height()).step_by(frame_size_y)`, `(8 - base_yy).rem_euclid(8)`,
\* `(0..img.width()).step_by(frame_size_x)`
TileBounds(img_width, img_height, frame_size_x, frame_size_y) ==
    LET rows == (img_height + frame_size_y - 1) \div frame_size_y
        cols == (img_width + frame_size_x - 1) \div frame_size_x
    IN  [k \in 1..(rows * cols) |->
            LET base_yy == (k - 1) \div cols
                yy == ((8 - base_yy) % 8) * frame_size_y
                xx == ((k - 1) % cols) * frame_size_x
            IN  <<xx, yy, xx + frame_size_x, yy + frame_size_y>>]

\* GenericImageView::get_pixel panics outside of the image: the pixels
\* (i, j) of the box that is read are all inside it
BoxInside(img_width, img_height, box) ==
    \A i \in box[1]..(box[3] - 1), j \in box[2]..(box[4] - 1) :
        i < img_width /\ j < img_height

MinOf(S) == CHOOSE x \in S : \A y \in S : x <= y
MaxOf(S) == CHOOSE x \in S : \A y \in S : y <= x

\* sub_from_bounds, add_to_bounds
sub_from_bounds(b, c) == <<b[1] - c[1], b[2] - c[2], b[3] - c[1], b[4] - c[2]>>
add_to_bounds(b, c) == <<b[1] + c[1], b[2] + c[2], b[3] + c[1], b[4] + c[2]>>

\* get_covered_bounds
get_covered_bounds(in_img, max_box) ==
    LET covered == {p \in (max_box[1]..(max_box[3] - 1)) \X
                          (max_box[2]..(max_box[4] - 1)) : in_img.px[p].a # 0}
        min_x == IF covered = {} THEN in_img.width ELSE MinOf({p[1] : p \in covered})
        min_y == IF covered = {} THEN in_img.height ELSE MinOf({p[2] : p \in covered})
        max_x == IF covered = {} THEN -1 ELSE MaxOf({p[1] : p \in covered})
        max_y == IF covered = {} THEN -1 ELSE MaxOf({p[2] : p \in covered})
    IN  sub_from_bounds(<<min_x, min_y, max_x + 1, max_y + 1>>,
                        <<max_box[1], max_box[2]>>)

\* get_offset_from_rgb: the colour classes a pixel of alpha 255 belongs to
ColourClasses(color, black, r, g, b, white) ==
    <<black /\ color.r = 0 /\ color.g = 0 /\ color.b = 0,
      r /\ color.r = 255,
      g /\ color.g = 255,
      b /\ color.b = 255,
      white /\ color.r = 255 /\ color.g = 255 /\ color.b = 255>>

\* variant: a second pixel of a class is passed over
SecondOfClass_Ignored(results, classes) == FALSE

\* get_offset_from_rgb: `if results[n].is_none() { .. } else { return Err }`
SecondOfClass(results, classes) ==
    \E c \in 1..5 : classes[c] /\ results[c] # None

\* get_offset_from_rgb, the loops from pixel number k of the box on (i is
\* the outer loop, j the inner one)
RECURSIVE ScanOffsets(_, _, _, _, _)
ScanOffsets(img, bounds, flags, k, results) ==
    LET h == bounds[4] - bounds[2]
        i == bounds[1] + ((k - 1) \div h)
        j == bounds[2] + ((k - 1) % h)
        color == img.px[<<i, j>>]
        classes == ColourClasses(color, flags[1], flags[2], flags[3], flags[4],
                                 flags[5])
    IN  IF h <= 0 \/ i >= bounds[3] THEN [ok |-> TRUE, results |-> results]
        ELSE IF color.a # 255
        THEN ScanOffsets(img, bounds, flags, k + 1, results)
        ELSE IF SecondOfClass(results, classes)
        THEN [ok |-> FALSE, results |-> results]
        ELSE ScanOffsets(img, bounds, flags, k + 1,
                 [c \in 1..5 |->
                     IF classes[c] /\ results[c] = None
                     THEN Some(i - bounds[1], j - bounds[2])
                     ELSE results[c]])

get_offset_from_rgb(img, bounds, black, r, g, b, white) ==
    ScanOffsets(img, bounds, <<black, r, g, b, white>>, 1,
                <<None, None, None, None, None>>)

\* SpriteOffsets::add_loc
add_loc(o, loc) ==
    Offsets(<<o.center_x + loc[1], o.center_y + loc[2]>>,
            <<o.head_x + loc[1], o.head_y + loc[2]>>,
            <<o.lhand_x + loc[1], o.lhand_y + loc[2]>>,
            <<o.rhand_x + loc[1], o.rhand_y + loc[2]>>)

\* DynamicImage::crop
Crop(img, x, y, width, height) ==
    Image(width, height,
          [p \in Pixels(width, height) |-> img.px[<<x + p[1], y + p[2]>>]])

\* get_sprite_frames, the body of the loop over xx (lines 155-220): what
\* becomes of the cell tile_bounds
FrameOfTile(img, offset_img, tile_bounds, frame_size_x, frame_size_y) ==
    IF ~BoxInside(img.width, img.height, tile_bounds) THEN [kind |-> "panic"]
    ELSE
    LET covered == get_covered_bounds(img, tile_bounds)
        no_tex == covered[1] >= covered[3]
        bounds == IF no_tex
                  THEN <<frame_size_x \div 2, frame_size_y \div 2,
                         (frame_size_x \div 2) + 1, (frame_size_y \div 2) + 1>>
                  ELSE covered
    IN  IF ~BoxInside(offset_img.width, offset_img.height, tile_bounds)
        THEN [kind |-> "panic"]
        ELSE
        LET frame_offset == get_offset_from_rgb(offset_img, tile_bounds,
                                                TRUE, TRUE, TRUE, TRUE, FALSE)
        IN  IF ~frame_offset.ok THEN [kind |-> "Err"]
            ELSE
            LET found == frame_offset.results
                center == IF found[3] # None THEN found[3] ELSE <<0, 0>>
                head == IF found[1] # None THEN found[1] ELSE center
                missing_tex == no_tex /\ found[1] = None
                lhand == IF found[2] # None THEN found[2] ELSE <<0, 0>>
                rhand == IF found[4] # None THEN found[4] ELSE <<0, 0>>
                abs_bounds == add_to_bounds(bounds, <<tile_bounds[1], tile_bounds[2]>>)
            IN  IF missing_tex THEN [kind |-> "skip"]
                ELSE [kind |-> "frame",
                      frame |-> SpriteFrame(
                          Crop(img, abs_bounds[1], abs_bounds[2],
                               abs_bounds[3] - abs_bounds[1],
                               abs_bounds[4] - abs_bounds[2]),
                          add_loc(Offsets(center, head, lhand, rhand),
                                  <<-bounds[1], -bounds[2]>>))]

\* Result<Vec<(DynamicImage, SpriteOffsets)>, anyhow::Error>, or a panic
FramesOk(frames) == [kind |-> "Ok", frames |-> frames]
FramesErr == [kind |-> "Err", frames |-> << >>]
FramesPanic == [kind |-> "panic", frames |-> << >>]

\* get_sprite_frames, the loops over the cells of one anim from cell k on
RECURSIVE FramesOfSheet(_, _, _, _, _, _)
FramesOfSheet(img, offset_img, frame_size_x, frame_size_y, k, frames) ==
    LET tiles == TileBounds(img.width, img.height, frame_size_x, frame_size_y)
        cell == FrameOfTile(img, offset_img, tiles[k], frame_size_x, frame_size_y)
    IN  IF k > Len(tiles) THEN FramesOk(frames)
        ELSE IF cell.kind = "panic" THEN FramesPanic
        ELSE IF cell.kind = "Err" THEN FramesErr
        ELSE FramesOfSheet(img, offset_img, frame_size_x, frame_size_y, k + 1,
                 IF cell.kind = "skip" \/ is_dupe(frames, cell.frame) THEN frames
                 ELSE Append(frames, cell.frame))

\* get_sprite_frames for a sprite of one anim with both of its images
get_sprite_frames(anim) ==
    FramesOfSheet(anim.img, anim.offset_img, anim.frame_width, anim.frame_height,
                  1, << >>)

\* anim sheets of one direction, the frames two pixels wide and one high
SheetImages(cols, colours) ==
    {Image(2 * cols, 1, px) : px \in [Pixels(2 * cols, 1) -> colours]}
AnimSheets ==
    UNION {[frame_width : {2}, frame_height : {1},
            img : SheetImages(cols, AnimColours),
            offset_img : SheetImages(cols, OffsetColours)] : cols \in 1..MaxCols}

\* make_sprite_recolor_sheet is about to call get_sprite_frames
InitSheet ==
    /\ InitServer
    /\ callee = "get_sprite_frames"
    /\ input \in AnimSheets
    /\ output = << >>

\* `let frames = get_sprite_frames(sprite_base_path).await?;`
GetSpriteFrames ==
    /\ callee = "get_sprite_frames"
    /\ output = << >>
    /\ output' = <<get_sprite_frames(input)>>
    /\ UNCHANGED <<callee, input, serverVars>>

NextSheet == GetSpriteFrames

SpecSheet == InitSheet /\ [][NextSheet]_vars

\* -------------------------------------------------- the recolor sheet atlas
\* (assets/sprite_sheets.rs: make_sprite_recolor_sheet and what it calls,
\* assets/img_util.rs)

WordBits  == 6       \* bits of the unsigned integers standing for u32
MaxSide   == 2       \* width and height of a frame are 1..MaxSide
MaxFrames == 3       \* frames get_sprite_frames returned

\* 2^WordBits
RECURSIVE Pow2(_)
Pow2(n) == IF n = 0 THEN 1 ELSE 2 * Pow2(n - 1)
U32 == Pow2(WordBits)

\* the arithmetic of the build: overflow checks panic (debug), or the result
\* wraps around (release)
Builds == {"debug", "release"}

\* Option-like result of unsigned arithmetic
Panicked == [panic |-> TRUE, wrapped |-> TRUE, value |-> 0]
U32Value(v, wrapped) == [panic |-> FALSE, wrapped |-> wrapped, value |-> v]

\* round_up_to_mult: (((num - 1) / mult) + 1) * mult in u32
round_up_to_mult(num, mult, build) ==
    LET minus_one == (num - 1) % U32
        plus_one == (minus_one \div mult) + 1
        times == (plus_one % U32) * mult
        wrapped == num - 1 < 0 \/ plus_one >= U32 \/ times >= U32
    IN  IF wrapped /\ build = "debug" THEN Panicked
        ELSE U32Value(times % U32, wrapped)

\* SpriteOffsets::get_bounds (combine_extents of the bounds of the anchors)
get_bounds(o) ==
    <<MinOf({10000, o.head_x, o.lhand_x, o.rhand_x, o.center_x}),
      MinOf({10000, o.head_y, o.lhand_y, o.rhand_y, o.center_y}),
      MaxOf({-10000, o.head_x + 1, o.lhand_x + 1, o.rhand_x + 1, o.center_x + 1}),
      MaxOf({-10000, o.head_y + 1, o.lhand_y + 1, o.rhand_y + 1, o.center_y + 1})>>

\* SpriteOffsets::get_centered_bounds
get_centered_bounds(o, c) ==
    LET b == get_bounds(o)
        min_x == MinOf({b[1] - c[1], c[1] - b[3]})
        min_y == MinOf({b[2] - c[2], c[2] - b[4]})
        max_x == MaxOf({c[1] - b[1], b[3] - c[1]})
        max_y == MaxOf({c[2] - b[2], b[4] - c[2]})
    IN  add_to_bounds(<<min_x, min_y, max_x, max_y>>, c)

\* get_sprite_frame_size_from_frames, the loop: max_width and max_height
RECURSIVE MaxFrameSize(_)
MaxFrameSize(frames) ==
    IF frames = << >> THEN <<0, 0>>
    ELSE LET before == MaxFrameSize(Front(frames))
             frame == frames[Len(frames)]
             ob == get_centered_bounds(frame.offsets,
                       <<frame.img.width \div 2, frame.img.height \div 2>>)
         IN  <<MaxOf({before[1], frame.img.width, (ob[3] - ob[1]) % U32}),
               MaxOf({before[2], frame.img.height, (ob[4] - ob[2]) % U32})>>

\* get_sprite_frame_size_from_frames
get_sprite_frame_size_from_frames(frames, build) ==
    <<round_up_to_mult(MaxFrameSize(frames)[1], 2, build),
      round_up_to_mult(MaxFrameSize(frames)[2], 2, build)>>

\* variant: the side is the root rounded down
CeilSqrt_Floor(n) == CHOOSE r \in 0..n : r * r <= n /\ (r + 1) * (r + 1) > n

\* `(frames.len() as f64).sqrt().ceil() as u32`
CeilSqrt(n) ==
    LET floor == CHOOSE r \in 0..n : r * r <= n /\ (r + 1) * (r + 1) > n
    IN  IF floor * floor = n THEN floor ELSE floor + 1

\* make_sprite_recolor_sheet, the body of the loop (lines 104-111): where
\* copy_from puts frame number idx
FramePosition(idx, frame, frame_size_x, frame_size_y, max_size) ==
    LET diff_pos_x == (frame_size_x \div 2) - (frame.img.width \div 2)
        diff_pos_y == (frame_size_y \div 2) - (frame.img.height \div 2)
        xx == idx % max_size
        yy == idx \div max_size
        tile_pos_x == xx * frame_size_x
        tile_pos_y == yy * frame_size_y
    IN  [tile |-> <<tile_pos_x, tile_pos_y>>,
         at |-> <<tile_pos_x + diff_pos_x, tile_pos_y + diff_pos_y>>]

\* GenericImage::copy_from is an Err when the frame does not fit
CopyFits(canvas, frame, at) ==
    /\ at[1] + frame.img.width <= canvas[1]
    /\ at[2] + frame.img.height <= canvas[2]

\* make_sprite_recolor_sheet up to the end of the loop: the size of a tile,
\* the side of the atlas, the canvas and the places of the frames
Atlas(frames, build) ==
    LET size == get_sprite_frame_size_from_frames(frames, build)
        frame_size_x == size[1].value
        frame_size_y == size[2].value
        max_size == CeilSqrt(Len(frames))
        canvas == <<max_size * frame_size_x, max_size * frame_size_y>>
        placed == [i \in 1..Len(frames) |->
                      FramePosition(i - 1, frames[i], frame_size_x, frame_size_y,
                                    max_size)]
    IN  IF size[1].panic \/ size[2].panic
        THEN [kind |-> "panic", frame_size |-> <<0, 0>>, max_size |-> 0,
              canvas |-> <<0, 0>>, placed |-> << >>]
        ELSE IF \E i \in 1..Len(frames) : ~CopyFits(canvas, frames[i], placed[i].at)
        THEN [kind |-> "Err", frame_size |-> <<frame_size_x, frame_size_y>>,
              max_size |-> max_size, canvas |-> canvas, placed |-> placed]
        ELSE [kind |-> "Ok", frame_size |-> <<frame_size_x, frame_size_y>>,
              max_size |-> max_size, canvas |-> canvas, placed |-> placed]

\* the frames of the atlas by their sizes; the anchors of a frame are on its
\* first pixel, or on a pixel to the right of every frame
AtlasFrames ==
    {SpriteFrame([width |-> w, height |-> h], Offsets(p, p, p, p)) :
        w \in 1..MaxSide, h \in 1..MaxSide, p \in {<<0, 0>>, <<5, 0>>}}

\* get_sprite_frames returned to make_sprite_recolor_sheet
InitAtlas ==
    /\ InitServer
    /\ callee = "make_sprite_recolor_sheet"
    /\ input \in [frames : SeqsUpTo(AtlasFrames, MaxFrames), build : Builds]
    /\ output = << >>

MakeAtlas ==
    /\ callee = "make_sprite_recolor_sheet"
    /\ output = << >>
    /\ output' = <<Atlas(input.frames, input.build)>>
    /\ UNCHANGED <<callee, input, serverVars>>

NextAtlas == MakeAtlas

SpecAtlas == InitAtlas /\ [][NextAtlas]_vars

\* a number is about to be rounded up to an even one
InitRound ==
    /\ InitServer
    /\ callee = "round_up_to_mult"
    /\ input \in [num : 0..(U32 - 1), mult : {2}, build : Builds]
    /\ output = << >>

RoundUp ==
    /\ callee = "round_up_to_mult"
    /\ output = << >>
    /\ output' = <<round_up_to_mult(input.num, input.mult, input.build)>>
    /\ UNCHANGED <<callee, input, serverVars>>

NextRound == RoundUp

SpecRound == InitRound /\ [][NextRound]_vars

\* ------------------------------------------------ the palette of the sheet
\* (assets/sprite_sheets.rs lines 101-113, assets/img_util.rs)

MaxTextures == 2     \* frames of the sheets whose pixels are followed

\* RgbaImage::new and the copy_from of every frame: the pixel p of the
\* canvas after the loop of make_sprite_recolor_sheet
CombinedPixel(frames, placed, p) ==
    LET over == {i \in 1..Len(frames) :
                    /\ p[1] - placed[i].at[1] \in 0..(frames[i].img.width - 1)
                    /\ p[2] - placed[i].at[2] \in 0..(frames[i].img.height - 1)}
        last == MaxOf(over)
    IN  IF over = {} THEN 0
        ELSE frames[last].img.px[<<p[1] - placed[last].at[1],
                                   p[2] - placed[last].at[2]>>]

combined_img(frames, atlas) ==
    Image(atlas.canvas[1], atlas.canvas[2],
          [p \in Pixels(atlas.canvas[1], atlas.canvas[2]) |->
              CombinedPixel(frames, atlas.placed, p)])

\* add_palette_to, the first loop over img.pixels() (row by row) from pixel
\* number k on
RECURSIVE Palette(_, _, _)
Palette(img, k, palette) ==
    LET px == img.px[<<k % img.width, k \div img.width>>]
    IN  IF k >= img.width * img.height THEN palette
        ELSE IF px = 0 THEN Palette(img, k + 1, palette)
        ELSE IF \E i \in 1..Len(palette) : palette[i] = px
        THEN Palette(img, k + 1, palette)
        ELSE Palette(img, k + 1, Append(palette, px))

\* add_palette_to: put_pixel(x, 0, px) panics outside of the image
add_palette_to(img) ==
    LET palette == Palette(img, 0, << >>)
    IN  IF palette # << >> /\ (Len(palette) > img.width \/ img.height = 0)
        THEN [panic |-> TRUE, img |-> img]
        ELSE [panic |-> FALSE,
              img |-> Image(img.width, img.height,
                          [p \in Pixels(img.width, img.height) |->
                              IF p[2] = 0 /\ p[1] < Len(palette)
                              THEN palette[p[1] + 1] ELSE img.px[p]])]

\* frames with textures of 2 x 2 pixels, the anchors on the first pixel
TextureFrames ==
    {SpriteFrame(Image(2, 2, px), Offsets(<<0, 0>>, <<0, 0>>, <<0, 0>>, <<0, 0>>)) :
        px \in [Pixels(2, 2) -> Colours]}

InitPalette ==
    /\ InitServer
    /\ callee = "add_palette_to"
    /\ input \in [frames : SeqsUpTo(TextureFrames, MaxTextures) \ {<< >>}]
    /\ output = << >>

\* make_sprite_recolor_sheet from line 98 to add_palette_to
MakeSheet ==
    /\ callee = "add_palette_to"
    /\ output = << >>
    /\ LET atlas == Atlas(input.frames, "release")
       IN  output' = <<[atlas |-> atlas,
                        sheet |-> add_palette_to(combined_img(input.frames, atlas))]>>
    /\ UNCHANGED <<callee, input, serverVars>>

NextPalette == MakeSheet

SpecPalette == InitPalette /\ [][NextPalette]_vars

\* ------------------------------------------------------ the portrait sheets
\* (assets/portrait_sheets.rs)

MaxEmotions == 4       \* declared emotions, numbered 0 .. n - 1
MaxTileX == 3          \* portrait_tile_x
MaxPortraitSize == 2   \* portrait_size

\* PortraitSheetEmotions::new, the loop from emotion number idx on:
\* <<emotion_positions, current_row, max_width>>
RECURSIVE EmotionLoop(_, _, _, _, _, _)
EmotionLoop(idx, n, width_sheet, emotion_positions, current_row, max_width) ==
    LET current_col == idx % width_sheet
    IN  IF idx >= n THEN <<emotion_positions, current_row, max_width>>
        ELSE EmotionLoop(idx + 1, n, width_sheet,
                 [emotion_positions EXCEPT ![idx] = <<current_col, current_row>>],
                 IF current_col = width_sheet - 1 THEN current_row + 1
                 ELSE current_row,
                 MaxOf({max_width, current_col + 1}))

PortraitSheetEmotions(n, width_sheet) ==
    LET r == EmotionLoop(0, n, width_sheet, [idx \in 0..(n - 1) |-> << >>], 0, 0)
    IN  [emotion_positions |-> r[1], max_height |-> r[2], max_width |-> r[3]]

\* GenericImage::copy_from of a portrait of portrait_size x portrait_size
\* pixels to (x, y): an error if it does not fit into the image
PortraitFits(canvas, x, y, portrait_size) ==
    /\ x + portrait_size <= canvas[1]
    /\ y + portrait_size <= canvas[2]

\* do_make_portrait_sheet; files are the emotions of the group that have an
\* image. The first copy_from that fails ends the function with its error.
do_make_portrait_sheet(padding_top, files, emotions, portrait_size) ==
    LET canvas == <<emotions.max_width * portrait_size,
                    emotions.max_height * portrait_size + padding_top>>
        at == [e \in files |->
                  <<emotions.emotion_positions[e][1] * portrait_size,
                    emotions.emotion_positions[e][2] * portrait_size + padding_top>>]
    IN  [kind |-> IF \A e \in files :
                         PortraitFits(canvas, at[e][1], at[e][2], portrait_size)
                  THEN "Ok" ELSE "Err",
         canvas |-> canvas,
         at |-> at]

InitPortrait ==
    /\ InitServer
    /\ callee = "do_make_portrait_sheet"
    /\ \E n \in 1..MaxEmotions :
           input \in [n : {n},
                      portrait_tile_x : 1..MaxTileX,
                      portrait_size : 1..MaxPortraitSize,
                      padding_top : {0, 1},
                      files : SUBSET (0..(n - 1))]
    /\ output = << >>

\* make_portrait_sheet / make_portrait_recolor_sheet up to the image
MakePortraitSheet ==
    /\ callee = "do_make_portrait_sheet"
    /\ output = << >>
    /\ LET emotions == PortraitSheetEmotions(input.n, input.portrait_tile_x)
       IN  output' = <<[emotions |-> emotions,
                        sheet |-> do_make_portrait_sheet(input.padding_top,
                                      input.files, emotions, input.portrait_size)]>>
    /\ UNCHANGED <<callee, input, serverVars>>

NextPortrait == MakePortraitSheet

SpecPortrait == InitPortrait /\ [][NextPortrait]_vars

\* ------------------------------------------- the cells read from the sheets
\* (assets/sprite_sheets.rs lines 148-178, 304-332, 358-410)

Directions == 8        \* the rows of a sheet are remapped modulo 8
MaxSheetCols == 3      \* frames in a row of a sheet
MaxFrameSide == 2      \* frame_size_x, frame_size_y

\* the cells that get_covered_bounds (Anim image) and get_offset_from_rgb
\* (Offsets image) are called with, in the order of the loops, and whether
\* get_pixel is called with a pixel outside of the image on the way
ReadCells(img_width, img_height, offset_width, offset_height, frame_size_x, frame_size_y) ==
    LET tiles == TileBounds(img_width, img_height, frame_size_x, frame_size_y)
        bad == {k \in 1..Len(tiles) :
                   \/ ~BoxInside(img_width, img_height, tiles[k])
                   \/ ~BoxInside(offset_width, offset_height, tiles[k])}
    IN  IF bad = {} THEN [panic |-> FALSE, cells |-> tiles]
        ELSE [panic |-> TRUE,
              cells |-> [k \in 1..MinOf(bad) |-> tiles[k]]]

\* Anim and Offsets images of rows x cols frames
InitCells ==
    /\ InitServer
    /\ callee = "get_covered_bounds"
    /\ input \in [rows : 1..Directions,
                  cols : 1..MaxSheetCols,
                  frame_size_x : 1..MaxFrameSide,
                  frame_size_y : 1..MaxFrameSide]
    /\ output = << >>

\* the loops of get_sprite_frames over the rows and the columns of a sheet
ReadSheetCells ==
    /\ callee = "get_covered_bounds"
    /\ output = << >>
    /\ LET w == input.cols * input.frame_size_x
           h == input.rows * input.frame_size_y
       IN  output' = <<ReadCells(w, h, w, h, input.frame_size_x, input.frame_size_y)>>
    /\ UNCHANGED <<callee, input, serverVars>>

NextCells == ReadSheetCells

SpecCells == InitCells /\ [][NextCells]_vars

\* ------------------------------------------------------ SpriteCollab::new
\* (sprite_collab.rs lines 124-172, 292-429)

MaxHistory == 3      \* commits of the history at startup (ids 1..MaxHistory)

History == 1..MaxHistory

\* ReportingEvent with the commit it carries (0: none)
Event(e) == [event |-> e, commit |-> 0]
StaleDatafiles(c) == [event |-> "StaleDatafiles", commit |-> c]

\* Meta::new(): no commit, both dates are Utc::now()
MetaNew(now) ==
    [assets_commit |-> 0, assets_update_date |-> now, update_checked_date |-> now]

\* variant: the head stays where it is
Parent_Same(t) == t

\* Commit::parent(0): the first parent of commit t (the history is linear,
\* commit 1 is the only one without a parent)
Parent(t) == t - 1

HasParent(t) == t > 1

\* the locals of SpriteCollab::new: at is the position, value the data of
\* the last Ok, start the head when the rollback loop was entered
Locals(at, value, new_commit, rollback, start) ==
    [at |-> at, value |-> value, new_commit |-> new_commit,
     rollback |-> rollback, start |-> start]

\* the process starts: the directory of the repository holds any commit of
\* the history or no repository, any commit is the head of origin/master
InitStartup ==
    /\ upstream \in History
    /\ content \in [History -> Contents \cup {Unparseable}]
    /\ workTree \in History \cup {NoTree}
    /\ clock = 0
    /\ state = "Ready"
    /\ stateLock = Free
    /\ meta = MetaNew(clock)
    /\ current_data = NoData
    /\ dataCommit = 0
    /\ redis = EmptyStore
    /\ lastEvent = Event("none")
    /\ pc = [c \in Callers |-> "idle"]
    /\ new_data = [c \in Callers |-> NoData]
    /\ newCommit = [c \in Callers |-> 0]
    /\ error = [c \in Callers |-> "none"]
    /\ calledBusy = [c \in Callers |-> FALSE]
    /\ rpc = [r \in Reqs |-> "idle"]
    /\ key = [r \in Reqs |-> "k1"]
    /\ snap = [r \in Reqs |-> NoSnap]
    /\ outcome = [r \in Reqs |-> "none"]
    /\ val = [r \in Reqs |-> NoValue]
    /\ ret = [r \in Reqs |-> NoRet]
    /\ gpc = [g \in Gqls |-> "idle"]
    /\ seen1 = [g \in Gqls |-> NoSnap]
    /\ seen2 = [g \in Gqls |-> NoSnap]
    /\ sched = "wait"
    /\ channel = 0
    /\ shutdownPc = "running"
    /\ callee = "SpriteCollab::new"
    /\ input = Locals("update", NoData, 0, FALSE, 0)
    /\ output = << >>

\* what SpriteCollab::new leaves alone
startupRest ==
    <<upstream, content, clock, state, stateLock, redis,
      refreshVars, reqVars, gqlVars, schedVars, callee>>

\* refresh_data -> refresh_data_internal_do(update = true), the repository:
\* try_update_repo, on its failure remove_dir_all and create_repo.  An Err
\* takes the None arm of SpriteCollab::new.
NewUpdateRepo(upd, rm, cl) ==
    /\ callee = "SpriteCollab::new" /\ input.at = "update"
    /\ IF (workTree # NoTree /\ upd) \/ (rm /\ cl)
       THEN /\ workTree' = upstream
            /\ input' = [input EXCEPT !.at = "parse"]
            /\ UNCHANGED meta
       ELSE /\ workTree' = IF rm THEN NoTree ELSE workTree
            /\ meta' = MetaOnError(meta, clock)
            /\ input' = [input EXCEPT !.at = "rewind", !.rollback = TRUE,
                                      !.start = workTree']
    /\ UNCHANGED <<current_data, dataCommit, lastEvent, output, startupRest>>

\* refresh_data -> refresh_data_internal_do(update = true), the data files
\* of the head; refresh_data sends UpdateDatafiles(Ok) for Some
NewParse(reported) ==
    /\ callee = "SpriteCollab::new" /\ input.at = "parse"
    /\ IF content[workTree] = Unparseable
       THEN /\ lastEvent' = IF reported THEN Event("UpdateError") ELSE lastEvent
            /\ meta' = MetaOnError(meta, clock)
            /\ input' = [input EXCEPT !.at = "rewind", !.rollback = TRUE,
                                      !.start = workTree]
       ELSE /\ lastEvent' = Event("UpdateOk")
            /\ meta' = MetaOf(workTree, clock)
            /\ input' = [input EXCEPT !.at = "new", !.value = content[workTree],
                                      !.new_commit = workTree]
    /\ UNCHANGED <<workTree, current_data, dataCommit, output, startupRest>>

\* try_checkout_previous_commit(..).expect(..): Repository::open fails
\* without a repository, parent(0) fails for a commit without parents, and
\* the expect panics; else the hard reset moves the head to the parent
TryCheckoutPreviousCommit ==
    /\ callee = "SpriteCollab::new" /\ input.at = "rewind"
    /\ IF workTree = NoTree \/ ~HasParent(workTree)
       THEN /\ output' = <<[kind |-> "panic"]>>
            /\ input' = [input EXCEPT !.at = "panicked"]
            /\ UNCHANGED workTree
       ELSE /\ workTree' = Parent(workTree)
            /\ input' = [input EXCEPT !.at = "retry", !.new_commit = Parent(workTree)]
            /\ UNCHANGED output
    /\ UNCHANGED <<meta, current_data, dataCommit, lastEvent, startupRest>>

\* refresh_data_internal(reporting, &meta, false) in the loop: Ok breaks
\* out of the loop, Err goes around
RetryParse(reported) ==
    /\ callee = "SpriteCollab::new" /\ input.at = "retry"
    /\ IF workTree = NoTree
       THEN /\ meta' = MetaOnError(meta, clock)
            /\ input' = [input EXCEPT !.at = "rewind"]
            /\ UNCHANGED lastEvent
       ELSE IF content[workTree] = Unparseable
       THEN /\ lastEvent' = IF reported THEN Event("UpdateError") ELSE lastEvent
            /\ meta' = MetaOnError(meta, clock)
            /\ input' = [input EXCEPT !.at = "rewind"]
       ELSE /\ meta' = MetaOf(workTree, clock)
            /\ input' = [input EXCEPT !.at = "stale", !.value = content[workTree]]
            /\ UNCHANGED lastEvent
    /\ UNCHANGED <<workTree, current_data, dataCommit, output, startupRest>>

\* reporting.send_event(ReportingEvent::StaleDatafiles(new_commit))
SendStaleDatafiles ==
    /\ callee = "SpriteCollab::new" /\ input.at = "stale"
    /\ lastEvent' = StaleDatafiles(input.new_commit)
    /\ input' = [input EXCEPT !.at = "new"]
    /\ UNCHANGED <<workTree, meta, current_data, dataCommit, output, startupRest>>

\* Arc::new(Self { state: State::Ready, current_data, .. })
NewReturn ==
    /\ callee = "SpriteCollab::new" /\ input.at = "new"
    /\ current_data' = input.value
    /\ dataCommit' = workTree
    /\ output' = <<[kind |-> "Ok"]>>
    /\ input' = [input EXCEPT !.at = "returned"]
    /\ UNCHANGED <<workTree, meta, lastEvent, startupRest>>

NextStartup ==
    \/ \E upd, rm, cl \in BOOLEAN : NewUpdateRepo(upd, rm, cl)
    \/ \E reported \in BOOLEAN : NewParse(reported)
    \/ TryCheckoutPreviousCommit
    \/ \E reported \in BOOLEAN : RetryParse(reported)
    \/ SendStaleDatafiles
    \/ NewReturn

\* SpriteCollab::new is one task that runs to its end: no step of it waits
\* for another task
SpecStartup == InitStartup /\ [][NextStartup]_vars /\ WF_vars(NextStartup)

\* ------------------------------------------------------------------ claims

\* SpriteCollab::with_meta(): the Meta a reader is handed
WithMeta == meta

\* C1: refresh flushes the cache if and only if the loaded data differs from
\* the published data: the swap step goes on to flushall exactly when the
\* old and the new SpriteCollabData are different.
C1_FlushIffChanged ==
    [][\A c \in Callers :
          (pc[c] = "swap" /\ pc'[c] # "swap") =>
              ((pc'[c] = "flush") <=> ~DataEq(current_data, new_data[c]))]_vars

\* a cache hit is stale for a request when its value was derived from a
\* snapshot published before the one the request holds, with other data
Stale(v, s) ==
    /\ v.commit < s.commit
    /\ ~DataEq(content[v.commit], s.data)

\* C2: a request never gets a cache hit whose value was computed from a
\* snapshot older than the one the request read.
C2_NoStaleHit ==
    \A r \in Reqs : ret[r].kind = "hit" => ~Stale(ret[r].value, snap[r])

\* C3: what data() and with_meta() hand out at any moment belongs to one
\* published snapshot: Meta.assets_commit is the commit of current_data.
C3_NoMixedSnapshot == WithMeta.assets_commit = Data.commit

\* C4: a refresh() called while another refresh() was in progress does
\* nothing: it never gets to fetch, parse, swap or flush.
C4_SecondCallDoesNothing ==
    \A c \in Callers :
        calledBusy[c] => pc[c] \notin {"update", "parse", "swap", "flush"}

C6_FailedRefreshKeepsSnapshot ==
    [][\A c \in Callers :
          (pc[c] \in {"update", "parse"} /\ pc'[c] # "swap") =>
              /\ current_data' = current_data
              /\ dataCommit' = dataCommit
              /\ meta'.assets_commit = meta.assets_commit
              /\ meta'.assets_update_date = meta.assets_update_date
              /\ \/ redis' = redis
                 \/ \E r \in Reqs :
                        /\ rpc[r] = "set"
                        /\ redis' = [redis EXCEPT ![key[r]] = Serialize(val[r])]
              /\ (pc'[c] = "unlock") =>
                     /\ error'[c] # "none"
                     /\ new_data'[c] = NoData
                     /\ redis' = redis
                     /\ meta' = [meta EXCEPT !.update_checked_date = clock]
              /\ (pc'[c] # "unlock") => meta' = meta]_vars

C6_Witness ==
    \E c \in Callers :
        /\ pc[c] = "unlock"
        /\ error[c] # "none"
        /\ WithMeta.update_checked_date = clock
        /\ clock > 0
        /\ WithMeta.assets_commit = Data.commit
        /\ \E k \in Keys : redis[k] # Nil

\* C7: whenever a request reads asset files (its producer runs), the commit
\* checked out in the working tree is Meta.assets_commit.
C7_TreeIsPublishedCommit ==
    \A r \in Reqs : rpc[r] = "produce" => workTree = WithMeta.assets_commit

\* C8: all data() reads made while serving one request return the same
\* snapshot.
C8_OneSnapshotPerRequest ==
    \A g \in Gqls : seen2[g] # NoSnap => seen2[g] = seen1[g]

\* C9: a step of cached_may_fail changes the store only when it is the write
\* after a miss whose producer returned Ok(Cache(v)), and then the key holds
\* the serialization of v, the value returned; a hit returns the
\* deserialized entry without running the producer; NoCache and Err return
\* without a write.
C9_StoreOnlyOnCache ==
    [][\A r \in Reqs :
          rpc'[r] # rpc[r] =>
              /\ redis' # redis =>
                     /\ rpc[r] = "set"
                     /\ outcome[r] = "Cache"
                     /\ redis' = [redis EXCEPT ![key[r]] = <<"json", val[r]>>]
                     /\ ret'[r] = [kind |-> "computed", value |-> val[r]]
              /\ (rpc[r] = "get" /\ redis[key[r]] # Nil) =>
                     /\ rpc'[r] = "idle"
                     /\ outcome'[r] = "none"
                     /\ ret'[r].kind \in {"hit", "err"}
                     /\ ret'[r].kind = "hit" => ret'[r].value = redis[key[r]][2]
              /\ (rpc[r] = "produce" /\ outcome'[r] \in {"NoCache", "Err"}) =>
                     /\ rpc'[r] = "idle"
                     /\ redis' = redis
              /\ rpc'[r] = "set" => outcome'[r] = "Cache"]_vars

C9_Witness ==
    \E r \in Reqs :
        /\ rpc[r] = "idle"
        /\ outcome[r] = "Cache"
        /\ ret[r].kind = "computed"
        /\ redis[key[r]] = <<"json", ret[r].value>>

\* C10: once shutdown() has returned the scheduler thread has left its loop
\* and no refresh of it is running; a stopped thread stays stopped; the
\* thread leaves a refresh only by the return of refresh(); and with the
\* signal in the channel the wait never goes on to another refresh.
C10_ShutdownStopsScheduler ==
    /\ [](shutdownPc = "joined" => (sched = "stopped" /\ pc["sched"] = "idle"))
    /\ [][/\ sched = "stopped" => (sched' = "stopped" /\ pc'["sched"] = "idle")
          /\ sched = "refresh" =>
                 \/ sched' = "refresh"
                 \/ sched' = "wait" /\ pc["sched"] = "unlock" /\ pc'["sched"] = "idle"
          /\ (sched = "wait" /\ channel > 0) => sched' # "refresh"]_vars

C10_Witness ==
    /\ shutdownPc = "joined"
    /\ sched = "stopped"
    /\ Data.commit = upstream
    /\ upstream > 1

\* ---- claims about form resolution (SpecFindForm)

AllExact(needle) == \A i \in 1..Len(needle) : needle[i].kind = "Exact"
Zeros(k) == [i \in 1..k |-> Exact(0)]
IdsOf(needle) == [i \in 1..Len(needle) |-> needle[i].id]

\* C11: for a form path p of Exact matchers, find_form(p) and find_form(p
\* followed by any number of zeros) return the same result: the same
\* canonical path, the same names and the same group, or none both times.
C11_TrailingZerosSameResult ==
    (HasReturned("find_form") /\ AllExact(input.needle)) =>
        \A k \in 1..MaxZeros :
            find_form(input.tracker, input.needle \o Zeros(k)) = Result

\* a path to a nested form was resolved, and so was the path padded with zeros
C11_Witness ==
    /\ HasReturned("find_form")
    /\ AllExact(input.needle)
    /\ Result.found
    /\ Len(Result.path) = 2
    /\ Append(Front(Result.group), 0) \in Subgroups(input.tracker)
    /\ find_form(input.tracker, input.needle \o Zeros(MaxZeros)).found

\* C12: when the final element of the traversed path is 0, the current group
\* is returned if it has no subgroup with id 0, and the subgroup with id 0 is
\* looked up and returned if it has one.
C12_FinalZeroLooksUpSubgroup ==
    (/\ HasReturned("find_form")
     /\ AllExact(input.needle)
     /\ possibility_collapsed(IdsOf(input.needle)) = <<0>>) =>
        IF <<0>> \in Subgroups(input.tracker)
        THEN Result = SomeForm(<<0>>, PushName(<< >>, input.tracker[<<0>>]), <<0>>)
        ELSE Result = SomeForm(<< >>, << >>, << >>)

\* the choices a needle leaves: a Fallback(n) stands for n or 0
Choices(needle) ==
    {c \in [1..Len(needle) -> Ids] :
        \A i \in 1..Len(needle) :
            \/ c[i] = needle[i].id
            \/ needle[i].kind = "Fallback" /\ c[i] = 0}
Fallbacks(needle) ==
    Cardinality({i \in 1..Len(needle) : needle[i].kind = "Fallback"})

\* C13: find_form expands every Fallback(n) into n and 0, which gives 2^k
\* combinations for k Fallback matchers, collapses the trailing zeros of each
\* and returns the result of the first combination, in generation order, that
\* traverses; it returns none only if no combination traverses, and when the
\* combination that takes every Fallback(n) as n traverses, its result is
\* the one returned.
C13_FirstCombinationWins ==
    HasReturned("find_form") =>
        LET needle == input.needle
            combos == form_match_combinations(needle)
            trav(c) == find_form_step(input.tracker, << >>,
                                      possibility_collapsed(c), << >>, << >>)
        IN  /\ Len(combos) = 2 ^ Fallbacks(needle)
            /\ {combos[i] : i \in 1..Len(combos)} = Choices(needle)
            /\ Result.found <=> \E c \in Choices(needle) : trav(c).found
            /\ Result.found =>
                   \E i \in 1..Len(combos) :
                       /\ Result = trav(combos[i])
                       /\ \A j \in 1..(i - 1) : ~trav(combos[j]).found
            /\ trav(IdsOf(needle)).found => Result = trav(IdsOf(needle))

\* a needle with a Fallback whose own id does not exist resolved through 0,
\* and one whose every Fallback id exists resolved through these ids
C13_Witness ==
    /\ HasReturned("find_form")
    /\ Fallbacks(input.needle) = 2
    /\ Result.found
    /\ Result.path # << >>
    /\ ~find_form_step(input.tracker, << >>,
                       possibility_collapsed(IdsOf(input.needle)),
                       << >>, << >>).found

\* ---- claims about asset urls (SpecUrl)

\* the url of the request was made by get_url and went through match_url
UrlMatched == callee = "get_url" /\ Len(output) = 2
Matched == output[2]
RecolorKinds == {"PortraitRecolorSheet", "SpriteRecolorSheet"}

\* C14 as stated: for every served kind, monster id m and form path p,
\* match_url of the path of get_url(kind, srv, m, p) returns (m, p, kind).
C14_RoundTrip ==
    UrlMatched =>
        Matched = SomeMatch(input.monster_id, input.path_to_form, input.asset_type)

\* C14, amended: match_url of the path of get_url(kind, srv, m, p) returns
\* (m, p, kind) for the credits, the portrait sheet and the sprite zip, and
\* (m, q, kind) for the two recolor sheets, where q is p with index 1 set to
\* 1, after p was padded to two elements (with 0 for a missing index 0).
C14_RoundTripButRecolor ==
    UrlMatched =>
        LET p == input.path_to_form
            q == [i \in 1..(IF Len(p) < 2 THEN 2 ELSE Len(p)) |->
                     IF i = 2 THEN 1 ELSE IF i <= Len(p) THEN p[i] ELSE 0]
        IN  Matched = SomeMatch(input.monster_id,
                                IF input.asset_type \in RecolorKinds THEN q ELSE p,
                                input.asset_type)

\* the url of a recolor sheet of a form that is not shiny was matched, with
\* a monster id of more than one digit
C14_Witness ==
    /\ UrlMatched
    /\ input.asset_type = "SpriteRecolorSheet"
    /\ input.monster_id > 9
    /\ Len(input.path_to_form) = 2
    /\ input.path_to_form[2] = 0
    /\ Matched.found
    /\ Matched.form # input.path_to_form

\* ---- claims about the recolor routes (SpecAssetForm)

Resolved == callee = "match_and_process_assets_path" /\ output # << >>
NeedleIds == IdsOf(output[1])

\* r is p with index 1 forced to 0 and the trailing zeros stripped
IsNonShinyOf(r, p) ==
    LET q == [i \in 1..Len(p) |-> IF i = 2 THEN 0 ELSE p[i]]
    IN  /\ Len(r) <= Len(q)
        /\ \A i \in 1..Len(r) : r[i] = q[i]
        /\ \A i \in (Len(r) + 1)..Len(q) : q[i] = 0
        /\ r # << >> => r[Len(r)] # 0

\* r is p with index 1 forced to 1, padded to two elements if p is shorter
IsShinyOf(r, p) ==
    /\ Len(r) = IF Len(p) < 2 THEN 2 ELSE Len(p)
    /\ r[2] = 1
    /\ \A i \in 1..Len(p) : i # 2 => r[i] = p[i]

\* C15 as stated: a portrait-recolor request is resolved with index 1 forced
\* to 0 and trailing zeros stripped, a sprite-recolor request with index 1
\* forced to 1 and the path padded to length 2 at least.
C15_SpriteRecolorShiny ==
    Resolved =>
        /\ input.asset_type = "PortraitRecolorSheet" =>
               IsNonShinyOf(NeedleIds, input.form_path)
        /\ input.asset_type = "SpriteRecolorSheet" =>
               IsShinyOf(NeedleIds, input.form_path)

\* C15, amended: a portrait-recolor request and a sprite-recolor request are
\* both resolved with index 1 forced to 0 and trailing zeros stripped (the
\* non-shiny variant); every other request is resolved with the path as it
\* was requested.
C15_BothRecolorsNonShiny ==
    Resolved =>
        /\ AllExact(output[1])
        /\ output[2] = find_form(input.tracker, output[1])
        /\ IF input.asset_type \in RecolorKinds
           THEN IsNonShinyOf(NeedleIds, input.form_path)
           ELSE NeedleIds = input.form_path

\* the sprite recolor sheet of a shiny form that the tracker has was
\* requested, and the group of the form that is not shiny was found
C15_Witness ==
    /\ Resolved
    /\ input.asset_type = "SpriteRecolorSheet"
    /\ Len(input.form_path) = 2
    /\ input.form_path[2] = 1
    /\ input.form_path \in Subgroups(input.tracker)
    /\ output[2].found
    /\ output[2].group = <<input.form_path[1]>>

\* ---- claims about credit ids (SpecCreditId)

AllDigits(n) == n # << >> /\ \A i \in 1..Len(n) : IsDigit(n[i])

\* C19: parse_credit_id maps a field of the form <@!N> and of the form <@N>,
\* N a run of digits, to N, and returns every other field unchanged; applied
\* twice it gives what it gives applied once.
C19_MentionsStripped ==
    (callee = "parse_credit_id" /\ output # << >>) =>
        LET n1 == SubSeq(input, 4, Len(input) - 1)
            n2 == SubSeq(input, 3, Len(input) - 1)
            bang == /\ Len(input) >= 5
                    /\ SubSeq(input, 1, 3) = <<"<", "@", "!">>
                    /\ input[Len(input)] = ">"
                    /\ AllDigits(n1)
            plain == /\ Len(input) >= 4
                     /\ SubSeq(input, 1, 2) = <<"<", "@">>
                     /\ input[Len(input)] = ">"
                     /\ AllDigits(n2)
        IN  /\ output[1] = IF bang THEN n1 ELSE IF plain THEN n2 ELSE input
            /\ Len(output) = 2 => output[2] = output[1]

\* ---- claims about credits.txt (SpecCreditsFile)

\* the rows of the file have the columns date, credit_id, obsolete_flag,
\* license, items
NewFormat(file) == \A i \in 1..Len(file) : Len(file[i]) = 5

\* the rows that precede the first row dated strictly after t
RowsUntil(file, t) ==
    {i \in 1..Len(file) : \A j \in 1..i : parse_time(file[j][1]) <= t}

\* C17: the map built from a new-format credits.txt for a commit time t maps
\* each name to the credit_id of the last row, among the rows preceding the
\* first row dated strictly after t, whose items column lists the name (a
\* row dated exactly t is included), and has no other names; so a single
\* row `.. 123 false Unknown Happy,Sad` of an earlier date gives Happy.
C17_MapOfItemsColumn ==
    (HasReturned("get_credits_until") /\ NewFormat(input.file)) =>
        /\ Result.ok
        /\ \A name \in MapKeys :
               LET rows == {i \in RowsUntil(input.file, input.until) :
                               name \in parse_items(input.file[i][5])}
               IN  IF rows = {} THEN Result.map[name] = << >>
                   ELSE Result.map[name] =
                            parse_credit_id(input.file[
                                CHOOSE i \in rows : \A j \in rows : j <= i][2])

\* ---- claims about the credit resolver (SpecCredits)

OldFlowResult ==
    old_credit_lookup(input.commit_id, input.info, input.file_at_commit)
TimedMap == get_credits_until(input.file_head.rows, input.commit_time)
UntimedMap == get_latest_credits(input.file_head.rows)
Has(credits, k) == credits.ok /\ credits.map[k] # << >>

\* the lookups of the new flow, in their order, from the old flow on
FromOldFlow ==
    IF IsOk(OldFlowResult) THEN OldFlowResult
    ELSE IF Has(UntimedMap, AssetName) THEN Maybe(UntimedMap.map[AssetName])
    ELSE IF Has(UntimedMap, "?") THEN Maybe(UntimedMap.map["?"])
    ELSE MissingCredits

\* C16 as stated: for a commit after the cutover whose form has a credits.txt
\* at HEAD, the first of these that succeeds is the result: the asset name in
\* the map up to the commit time (Certain), "?" in that map (Maybe), the old
\* flow, the asset name in the untimed map (Maybe), "?" in the untimed map
\* (Maybe); else MissingCredits.  A commit at or before the cutover uses the
\* old flow only.
C16_LookupOrder ==
    HasReturned("get_credit_id") =>
        IF input.commit_time > CutoverTime /\ input.file_head.present
        THEN Result =
                IF Has(TimedMap, AssetName) THEN Certain(TimedMap.map[AssetName])
                ELSE IF Has(TimedMap, "?") THEN Maybe(TimedMap.map["?"])
                ELSE FromOldFlow
        ELSE input.commit_time <= CutoverTime => Result = OldFlowResult

\* C16, amended: as stated, but when the credits.txt at HEAD cannot be read
\* up to the commit time, the result is MissingCredits and neither the old
\* flow nor the untimed map is looked at.
C16_LookupOrderUnlessUnreadable ==
    HasReturned("get_credit_id") =>
        IF input.commit_time > CutoverTime /\ input.file_head.present
        THEN Result =
                IF ~TimedMap.ok THEN MissingCredits
                ELSE IF Has(TimedMap, AssetName) THEN Certain(TimedMap.map[AssetName])
                ELSE IF Has(TimedMap, "?") THEN Maybe(TimedMap.map["?"])
                ELSE FromOldFlow
        ELSE input.commit_time <= CutoverTime => Result = OldFlowResult

\* after the cutover, nothing was found up to the commit time, the old flow
\* failed, and a later row at HEAD gave the author
C16_Witness ==
    /\ HasReturned("get_credit_id")
    /\ input.commit_time > CutoverTime
    /\ input.file_head.present
    /\ TimedMap.ok
    /\ ~Has(TimedMap, AssetName)
    /\ ~Has(TimedMap, "?")
    /\ ~IsOk(OldFlowResult)
    /\ Has(UntimedMap, AssetName)
    /\ Result = Maybe(UntimedMap.map[AssetName])

\* the old flow read a credits.txt at the commit's tree, a file whose rows
\* all have the same number of columns
OldFlowRead ==
    /\ HasReturned("get_credit_id")
    /\ input.commit_time <= CutoverTime
    /\ input.commit_id = "other"
    /\ input.file_at_commit.present
    /\ \A i \in 1..Len(input.file_at_commit.rows) :
           ~UnequalLengths(input.file_at_commit.rows, i)
FirstBadRow(file) ==
    CHOOSE i \in 1..Len(file) :
        /\ ~DeserializeRow(file[i], 3).ok
        /\ \A j \in 1..(i - 1) : DeserializeRow(file[j], 3).ok

\* C18: in the old flow the credits.txt at the commit's tree is parsed as
\* new-format first; only a structural error (a row with too few columns)
\* makes the resolver retry as old-format, which gives Maybe(credit_id of the
\* final row); a content error (a date that does not parse in a row with the
\* right columns) is not retried and is an error.
C18_ContentErrorNotRetried ==
    OldFlowRead =>
        LET file == input.file_at_commit.rows
            new == get_latest_credits(file)
        IN  /\ new.ok =>
                   Result = IF Has(new, AssetName) THEN Certain(new.map[AssetName])
                            ELSE IF Has(new, "?") THEN Maybe(new.map["?"])
                            ELSE MissingCredits
            /\ (new.err = "Message" /\ Len(file[FirstBadRow(file)]) >= 3) =>
                   ~IsOk(Result)
            /\ (new.err = "Message" /\ Len(file[FirstBadRow(file)]) < 3
                    /\ TimeParses(file[Len(file)][1])) =>
                   Result = Maybe(parse_credit_id(file[Len(file)][2]))

\* ---- claims about the fuzzy search (SpecSearch)

\* the scores above 0 of the keys an id belongs to
ScoresOf(id) ==
    {input[k].fuzzy_match.score : k \in
        {k \in 1..Len(input) :
            /\ input[k].fuzzy_match.some
            /\ input[k].fuzzy_match.score > 0
            /\ \E i \in 1..Len(input[k].vals) : input[k].vals[i] = id}}
BestScore(id) == CHOOSE s \in ScoresOf(id) : \A t \in ScoresOf(id) : t <= s

\* C20: fuzzy_find returns each id at most once; an id is returned iff a key
\* it belongs to has a score above 0; the ids come in the order of their
\* best scores, highest first.
C20_UniqueByBestScore ==
    HasReturned("fuzzy_find") =>
        /\ \A i, j \in 1..Len(Result) : i # j => Result[i] # Result[j]
        /\ \A id \in 1..MaxIdx :
               (\E i \in 1..Len(Result) : Result[i] = id) <=> ScoresOf(id) # {}
        /\ \A i, j \in 1..Len(Result) :
               i < j => BestScore(Result[i]) >= BestScore(Result[j])

\* two ids were found, the first through two keys of different scores, and
\* it ranks ahead of the other by the higher one
C20_Witness ==
    /\ HasReturned("fuzzy_find")
    /\ Len(Result) = 2
    /\ Cardinality(ScoresOf(Result[1])) = 2
    /\ BestScore(Result[1]) > BestScore(Result[2])
    /\ \E s \in ScoresOf(Result[1]) : s < BestScore(Result[1])

\* ---- claims about duplicate frames (SpecDupe, SpecDedup)

\* C21: the duplicate relation is reflexive and symmetric, and a frame and
\* its mirror image with mirrored anchors are duplicates of each other.
C21_DupeReflexiveSymmetricFlipStable ==
    HasReturned("is_dupe") =>
        /\ Result.aa
        /\ Result.ab <=> Result.ba
        /\ Result.am
        /\ Result.ma

\* two frames that differ were found to be duplicates, by mirroring
C21_Witness ==
    /\ HasReturned("is_dupe")
    /\ input.a # input.b
    /\ input.b = Mirror(input.a)
    /\ input.a.img # input.b.img
    /\ Result.ab
    /\ Result.ba

KeptFrames == output[1]
Discarded(i) == output[2][i]
\* the same texture and anchors as-is, or mirrored texture and anchors
Duplicates(f, g) == f = g \/ f = Mirror(g)
NoTwoKeptAreDupes ==
    \A i, j \in 1..Len(KeptFrames) :
        i # j => ~Duplicates(KeptFrames[i], KeptFrames[j])
DiscardedAreDupes ==
    \A i \in 1..Len(input) :
        IF Discarded(i)
        THEN \E j \in 1..(i - 1) :
                 /\ ~Discarded(j)
                 /\ Duplicates(input[j], input[i])
        ELSE \E k \in 1..Len(KeptFrames) : KeptFrames[k] = input[i]
MirroredAnchors(f, g) == g.offsets = MirrorOffsets(f.offsets, f.img.width)

AnchorClasses(color) ==
    {c \in {"black", "red", "green", "blue"} :
        /\ color.a = 255
        /\ \/ c = "black" /\ color.r = 0 /\ color.g = 0 /\ color.b = 0
           \/ c = "red" /\ color.r = 255
           \/ c = "green" /\ color.g = 255
           \/ c = "blue" /\ color.b = 255}
\* the cell number k (from 0, left to right) of the one row of the sheet
CellPixels(k) == {<<2 * k, 0>>, <<2 * k + 1, 0>>}
SheetCells == 0..((input.img.width \div 2) - 1)
BadOffsetsCell(k) ==
    \E p, q \in CellPixels(k) :
        /\ p # q
        /\ AnchorClasses(input.offset_img.px[p]) \cap
               AnchorClasses(input.offset_img.px[q]) # {}
NoTexture(k) == \A p \in CellPixels(k) : input.img.px[p].a = 0

\* C22: when an offsets cell has two opaque pixels of one anchor colour class,
\* the build returns an error and no frames, also when the cell is that of a
\* frame without texture.
C22_BadOffsetsCellFailsBuild ==
    (HasReturned("get_sprite_frames") /\ \E k \in SheetCells : BadOffsetsCell(k))
        => Result = FramesErr

\* the second cell has no texture and no black pixel, and a red pixel twice
C22_Witness ==
    /\ HasReturned("get_sprite_frames")
    /\ SheetCells = {0, 1}
    /\ ~BadOffsetsCell(0)
    /\ BadOffsetsCell(1)
    /\ NoTexture(1)
    /\ \A p \in CellPixels(1) : "black" \notin AnchorClasses(input.offset_img.px[p])
    /\ Result = FramesErr

\* ---- claims about the atlas (SpecAtlas, SpecRound)

Kept == input.frames
Placed(i) == Result.placed[i]
InTile(i) ==
    <<Placed(i).at[1] - Placed(i).tile[1], Placed(i).at[2] - Placed(i).tile[2]>>

\* C23: a kept frame of size w x h lies in its tile of size max_w x max_h at
\* the offset ((max_w - w) / 2, (max_h - h) / 2), for odd and even w and h.
C23_CenteredByHalfDifference ==
    (HasReturned("make_sprite_recolor_sheet") /\ Result.kind = "Ok") =>
        \A i \in 1..Len(Kept) :
            InTile(i) = <<(Result.frame_size[1] - Kept[i].img.width) \div 2,
                          (Result.frame_size[2] - Kept[i].img.height) \div 2>>

\* the pixels of the canvas frame number i is copied to
Covers(i) ==
    (Placed(i).at[1]..(Placed(i).at[1] + Kept[i].img.width - 1)) \X
    (Placed(i).at[2]..(Placed(i).at[2] + Kept[i].img.height - 1))

\* C24: for a non-empty list of n frames the side S of the atlas has
\* S * S >= n, frame i has the tile (i mod S, i div S) of the S x S grid and
\* lies inside it: no two frames overlap and none leaves the canvas.
C24_FramesInsideTheirTiles ==
    (HasReturned("make_sprite_recolor_sheet") /\ Kept # << >>) =>
        LET S == Result.max_size
            n == Len(Kept)
        IN  /\ Result.kind = "Ok"
            /\ S * S >= n
            /\ (S - 1) * (S - 1) < n
            /\ Result.canvas = <<S * Result.frame_size[1], S * Result.frame_size[2]>>
            /\ \A i \in 1..n :
                   /\ Placed(i).tile = <<((i - 1) % S) * Result.frame_size[1],
                                         ((i - 1) \div S) * Result.frame_size[2]>>
                   /\ (i - 1) \div S < S
                   /\ InTile(i)[1] >= 0
                   /\ InTile(i)[2] >= 0
                   /\ InTile(i)[1] + Kept[i].img.width <= Result.frame_size[1]
                   /\ InTile(i)[2] + Kept[i].img.height <= Result.frame_size[2]
                   /\ Covers(i) \subseteq
                          (0..(Result.canvas[1] - 1)) \X (0..(Result.canvas[2] - 1))
            /\ \A i, j \in 1..n : i # j => Covers(i) \cap Covers(j) = {}

\* three frames, the third in the second row of the grid, one of odd width
C24_Witness ==
    /\ HasReturned("make_sprite_recolor_sheet")
    /\ Len(Kept) = 3
    /\ Result.max_size = 2
    /\ Placed(3).tile[2] > 0
    /\ Kept[3].img.width = 1
    /\ Result.frame_size[1] > 2

\* C30: round_up_to_mult(num, 2) is the least even number >= num for every
\* num, 0 too, and nothing underflows or wraps around on the way.
C30_LeastEvenNoWrap ==
    HasReturned("round_up_to_mult") =>
        /\ ~Result.panic
        /\ ~Result.wrapped
        /\ Result.value % 2 = 0
        /\ Result.value >= input.num
        /\ Result.value - 2 < input.num

\* ---- claims about the palette (SpecPalette)

\* C26: the palette has the row y = 0 of the sheet to itself: no frame lies
\* in that row, and every pixel of every kept frame is read back from the
\* place of the frame in the sheet.
C26_PaletteRowApart ==
    HasReturned("add_palette_to") =>
        /\ ~Result.sheet.panic
        /\ \A i \in 1..Len(input.frames) :
               LET at == Result.atlas.placed[i].at
                   tex == input.frames[i].img
               IN  /\ at[2] >= 1
                   /\ \A p \in Pixels(tex.width, tex.height) :
                          Result.sheet.img.px[<<at[1] + p[1], at[2] + p[2]>>]
                              = tex.px[p]

\* ---- claims about the portrait sheets (SpecPortrait)

\* the cell of emotion number idx lies wholly inside a canvas
CellInside(canvas, idx) ==
    LET cell == Result.emotions.emotion_positions[idx]
    IN  /\ (cell[1] + 1) * input.portrait_size <= canvas[1]
        /\ (cell[2] + 1) * input.portrait_size + input.padding_top <= canvas[2]

\* C25: emotion number idx has the cell (idx mod tile_x, idx div tile_x), the
\* canvas is (max_col + 1) * size wide and (max_row + 1) * size + padding_top
\* tall, and the cell of every declared emotion lies inside of the canvas.
C25_CellsInsideCanvas ==
    HasReturned("do_make_portrait_sheet") =>
        LET pos == Result.emotions.emotion_positions
            max_col == MaxOf({pos[idx][1] : idx \in 0..(input.n - 1)})
            max_row == MaxOf({pos[idx][2] : idx \in 0..(input.n - 1)})
        IN  /\ \A idx \in 0..(input.n - 1) :
                   pos[idx] = <<idx % input.portrait_tile_x,
                                idx \div input.portrait_tile_x>>
            /\ Result.sheet.canvas =
                   <<(max_col + 1) * input.portrait_size,
                     (max_row + 1) * input.portrait_size + input.padding_top>>
            /\ \A idx \in 0..(input.n - 1) : CellInside(Result.sheet.canvas, idx)

\* ---- claims about the cells read from the sheets (SpecCells)

\* C29: for a sheet of 1 to 8 rows of frames whose width is a multiple of the
\* frame width, every cell that is read after the remapping of the rows lies
\* inside of the image: no pixel outside of the image is read.
C29_CellsInsideImage ==
    HasReturned("get_covered_bounds") =>
        /\ ~Result.panic
        /\ \A k \in 1..Len(Result.cells) :
               /\ Result.cells[k][3] <= input.cols * input.frame_size_x
               /\ Result.cells[k][4] <= input.rows * input.frame_size_y

\* ---- claims about the startup (SpecStartup)

DataParses(c) == content[c] # Unparseable

\* the commits the rollback loop can go back to: the first-parent ancestors
\* of the head whose data failed to load
Ancestors == {c \in History : c < input.start}

NewestParsing == MaxOf({c \in Ancestors : DataParses(c)})

RolledBack == callee = "SpriteCollab::new" /\ input.rollback

\* the rollback ended at commit c and published it
PublishedStale(c) ==
    /\ workTree = c
    /\ current_data = content[c]
    /\ dataCommit = c
    /\ meta.assets_commit = c
    /\ lastEvent = StaleDatafiles(c)

\* what holds when SpriteCollab::new is over after a failed first load
RollbackOutcome ==
    (RolledBack /\ output # << >>) =>
        IF \E c \in Ancestors : DataParses(c)
        THEN Result.kind = "Ok" /\ PublishedStale(NewestParsing)
        ELSE /\ Result.kind = "panic"
             /\ workTree = NoTree \/ ~HasParent(workTree)
             /\ current_data = NoData

\* the head only ever moves to its first parent in the loop
OneCommitAtATime ==
    (RolledBack /\ workTree' # workTree) => workTree' = Parent(workTree)

\* C27: when the first load of SpriteCollab::new fails, the rollback loop
\* resets the head to its first parent one commit at a time and comes to an
\* end: at the newest ancestor whose data parses, which is published with
\* Meta.assets_commit and StaleDatafiles naming it, or, if no ancestor
\* parses, with a failure at a head that has no parent.
C27_RollbackTerminates ==
    /\ [][OneCommitAtATime]_vars
    /\ []RollbackOutcome
    /\ <>(output # << >>)

C27_Witness ==
    /\ RolledBack
    /\ HasReturned("SpriteCollab::new")
    /\ Result.kind = "Ok"
    /\ input.start = workTree + 2
    /\ PublishedStale(workTree)

====
